---- MODULE Spec2Model ----
(***************************************************************************)
(* State-machine model of the foodgram backend: the recipe write path,     *)
(* the favourite / shopping-cart / subscription relations and the          *)
(* shopping-list consolidation of download_shopping_cart.                  *)
(*                                                                         *)
(* A database table without a uniqueness constraint of its own is a bag of *)
(* rows: a function from the row's columns to the number of such rows.     *)
(* The rows of IngredientInRecipe are kept per recipe, in insertion order. *)
(***************************************************************************)
EXTENDS Integers, Sequences, FiniteSets, TLC

\* ------------------------------------------------------------------ bounds
\* Largest amount a request payload carries.
MaxAmount == 2
\* Longest ingredient list a payload of the validation specification carries.
MaxLines == 3
\* Number of Recipe rows the relation-toggle specification creates.
MaxRecipes == 1
\* Number of concurrent add/remove requests of the race specification.
NumRequests == 2
\* Longest cooking time in a recipe payload
MaxCookingTime == 2
\* Most runs of one load command
MaxLoads == 2
\* The most lines of a consolidated list that is drawn
MaxExportLines == 25

\* ------------------------------------------------------- the fixed catalog
\* Primary keys of the User rows; every request below is authenticated.
Users == {1, 2}
\* A user pk that names no User row.
NoSuchUser == Cardinality(Users) + 1
\* Primary keys the Recipe table can hand out.
RecipeIds == {1, 2}
\* Primary keys of the Tag rows, and one pk that names no Tag row.
TagIds == {1, 2}
NoSuchTag == Cardinality(TagIds) + 1
\* The Ingredient rows: 1 and 2 are distinct records with the same name and
\* unit, 3 differs in the unit, 4 in the name.
Ingredient ==
  (1 :> [name |-> "Salt", measurement_unit |-> "g"]) @@
  (2 :> [name |-> "Salt", measurement_unit |-> "g"]) @@
  (3 :> [name |-> "Salt", measurement_unit |-> "kg"]) @@
  (4 :> [name |-> "Sugar", measurement_unit |-> "g"])
\* A pk that names no Ingredient row.
NoSuchIngredient == Cardinality(DOMAIN Ingredient) + 1

\* ------------------------------------------------------------------- state
VARIABLES
  recipes,          \* Recipe table: pk -> row, or NoRecipe
  next_recipe_id,   \* the next pk the Recipe table hands out
  ingredient_list,  \* IngredientInRecipe rows of each recipe, in pk order
  favorites,        \* Favourite table: bag of (user, recipe)
  shopping_cart,    \* ShoppingCart table: bag of (user, recipe)
  subscriptions,    \* Subscription table: bag of (user, author)
  req,              \* the request handled last
  resp,             \* its response
  requests,         \* race specification: the requests in flight
  users,            \* User table: the ids of the users that exist
  tag_table,        \* Tag rows written by Tag.save and load_tags, in pk order
  ingredient_table, \* Ingredient rows written by load_ingredients
  loads             \* each load command: its last file, its runs so far

\* The specifications of the recipe operations never write the Tag and
\* Ingredient tables and take their rows as given (TagIds, Ingredient); the
\* specifications of Tag.save and of the load commands start from empty
\* tables.
catalog == <<tag_table, ingredient_table, loads>>

vars == <<recipes, next_recipe_id, ingredient_list, favorites, shopping_cart,
          subscriptions, req, resp, requests, users, catalog>>

db == <<recipes, next_recipe_id, ingredient_list, favorites, shopping_cart,
        subscriptions>>

NoRecipe == [author |-> 0, tags |-> {}, cooking_time |-> 0]
NoPayload == [tags |-> <<>>, ingredients |-> <<>>, cooking_time |-> 0]
NoBody == [errors |-> <<>>]

Range(s) == {s[i] : i \in DOMAIN s}

\* Sequences over S of length at most n.
SeqUpTo(S, n) == UNION {[1..k -> S] : k \in 0..n}

RecipeExists(pk) == pk \in RecipeIds /\ recipes[pk] # NoRecipe

\* ---------------------------------------------------------------- statuses
HTTP_200_OK == "200_OK"
HTTP_201_CREATED == "201_CREATED"
HTTP_204_NO_CONTENT == "204_NO_CONTENT"
\* rest_framework.serializers.ValidationError: HTTP 400
ValidationError == "400_ValidationError"
\* django.http.Http404 from get_object_or_404: HTTP 404
NotFound == "404_NotFound"
\* HTTP 409; no handler of the program answers with it
Conflict == "409_Conflict"
\* spec section 7: non-author mutation attempt
PermissionDenied == "403_PermissionDenied"
\* django.db.IntegrityError, unhandled: HTTP 500
IntegrityError == "500_IntegrityError"
\* An unhandled exception of a view: HTTP 500
UnhandledException == "500_UnhandledException"

Request(op, user, target, payload) ==
  [op |-> op, user |-> user, target |-> target, payload |-> payload]
Response(status, body) == [status |-> status, body |-> body]

\* ------------------------------------------------- relation tables (bags)
EmptyFavourite == [p \in Users \X RecipeIds |-> 0]
EmptyShoppingCart == [p \in Users \X RecipeIds |-> 0]
EmptySubscription == [p \in Users \X Users |-> 0]

\* QuerySet.filter(user=..., recipe=...).exists()
Exists(table, user, target) ==
  <<user, target>> \in DOMAIN table /\ table[<<user, target>>] > 0

\* QuerySet.filter(user=...).delete(): every row of the user goes
Delete_user_rows(table, user, target) ==
  [p \in DOMAIN table |-> IF p[1] = user THEN 0 ELSE table[p]]

\* QuerySet.filter(user=..., recipe=...).delete(): every matching row goes
Delete(table, user, target) ==
  [p \in DOMAIN table |-> IF p = <<user, target>> THEN 0 ELSE table[p]]

\* INSERT with no uniqueness constraint in the way
InsertUnchecked(table, user, target) ==
  [table EXCEPT ![<<user, target>>] = @ + 1]

\* A table declared without its UniqueConstraint
NoConstraint(table, user, target) == TRUE

\* models.UniqueConstraint(fields=['user', 'recipe']) and
\* models.UniqueConstraint(fields=('user', 'author')): the insert of a pair
\* the table already holds is refused by the database.
UniqueConstraint(table, user, target) == ~Exists(table, user, target)

\* Model.objects.create(...) under the table's UniqueConstraint
Create(table, user, target) ==
  IF UniqueConstraint(table, user, target)
  THEN InsertUnchecked(table, user, target)
  ELSE table

\* ------------------------------------------------------- read serializers
\* RecipeShortSerializer: fields id, name, image, cooking_time
RecipeShortSerializer(pk) ==
  [id |-> pk, cooking_time |-> recipes[pk].cooking_time]

\* ------------------------------------------ favourite and shopping cart
Valid == "valid"

\* FavouriteSerializer: recipe is a PrimaryKeyRelatedField over all recipes
\* (an unknown pk is a ValidationError); validate() refuses a pair that is
\* already in the table.
FavouriteSerializer_validate(user, pk) ==
  IF ~RecipeExists(pk) THEN ValidationError
  ELSE IF Exists(favorites, user, pk) THEN ValidationError
  ELSE Valid

ShoppingCartSerializer_validate(user, pk) ==
  IF ~RecipeExists(pk) THEN ValidationError
  ELSE IF Exists(shopping_cart, user, pk) THEN ValidationError
  ELSE Valid

\* POST /recipes/{pk}/favorite/
add_to_favorite(user, pk) ==
  LET valid == FavouriteSerializer_validate(user, pk) IN
  /\ req' = Request("add_to_favorite", user, pk, NoPayload)
  /\ IF valid # Valid
     THEN /\ resp' = Response(valid, NoBody)
          /\ UNCHANGED favorites
     ELSE IF ~UniqueConstraint(favorites, user, pk)
     THEN /\ resp' = Response(IntegrityError, NoBody)
          /\ UNCHANGED favorites
     ELSE /\ favorites' = Create(favorites, user, pk)
          /\ resp' = Response(HTTP_201_CREATED, RecipeShortSerializer(pk))
  /\ UNCHANGED <<users, catalog, recipes, next_recipe_id, ingredient_list, shopping_cart,
                 subscriptions, requests>>

\* DELETE /recipes/{pk}/favorite/
delete_from_favorite(user, pk) ==
  /\ req' = Request("delete_from_favorite", user, pk, NoPayload)
  /\ favorites' = Delete(favorites, user, pk)
  /\ resp' = Response(HTTP_204_NO_CONTENT, NoBody)
  /\ UNCHANGED <<users, catalog, recipes, next_recipe_id, ingredient_list, shopping_cart,
                 subscriptions, requests>>

\* POST /recipes/{pk}/shopping_cart/
add_to_shopping_cart(user, pk) ==
  LET valid == ShoppingCartSerializer_validate(user, pk) IN
  /\ req' = Request("add_to_shopping_cart", user, pk, NoPayload)
  /\ IF valid # Valid
     THEN /\ resp' = Response(valid, NoBody)
          /\ UNCHANGED shopping_cart
     ELSE IF ~UniqueConstraint(shopping_cart, user, pk)
     THEN /\ resp' = Response(IntegrityError, NoBody)
          /\ UNCHANGED shopping_cart
     ELSE /\ shopping_cart' = Create(shopping_cart, user, pk)
          /\ resp' = Response(HTTP_201_CREATED, RecipeShortSerializer(pk))
  /\ UNCHANGED <<users, catalog, recipes, next_recipe_id, ingredient_list, favorites,
                 subscriptions, requests>>

\* DELETE /recipes/{pk}/shopping_cart/
delete_from_shopping_cart(user, pk) ==
  /\ req' = Request("delete_from_shopping_cart", user, pk, NoPayload)
  /\ shopping_cart' = Delete(shopping_cart, user, pk)
  /\ resp' = Response(HTTP_204_NO_CONTENT, NoBody)
  /\ UNCHANGED <<users, catalog, recipes, next_recipe_id, ingredient_list, favorites,
                 subscriptions, requests>>

\* ------------------------------------------------------------ subscription
\* SubscriptionSerializer.validate without the check of user == author
SubscriptionSerializer_validate_no_self(user, author) ==
  IF Exists(subscriptions, user, author) THEN ValidationError ELSE Valid

\* SubscriptionSerializer.validate: the existing pair first, then the
\* subscription to oneself; both raise serializers.ValidationError.
SubscriptionSerializer_validate(user, author) ==
  IF Exists(subscriptions, user, author) THEN ValidationError
  ELSE IF user = author THEN ValidationError
  ELSE Valid

\* subscription_instance.delete() that deletes nothing
DeleteInstance_no_delete(table, user, target) == table

\* subscription_instance.delete(): the one row get_object_or_404 returned
DeleteInstance(table, user, target) ==
  [table EXCEPT ![<<user, target>>] = @ - 1]

\* POST /users/{id}/subscribe/
subscribe_create(user, id) ==
  /\ req' = Request("subscribe", user, id, NoPayload)
  /\ IF id \notin users
     THEN /\ resp' = Response(NotFound, NoBody)
          /\ UNCHANGED subscriptions
     ELSE LET valid == SubscriptionSerializer_validate(user, id) IN
          IF valid # Valid
          THEN /\ resp' = Response(valid, NoBody)
               /\ UNCHANGED subscriptions
          ELSE IF ~UniqueConstraint(subscriptions, user, id)
          THEN /\ resp' = Response(IntegrityError, NoBody)
               /\ UNCHANGED subscriptions
          ELSE /\ subscriptions' = Create(subscriptions, user, id)
               /\ resp' = Response(HTTP_201_CREATED, [id |-> id])
  /\ UNCHANGED <<users, catalog, recipes, next_recipe_id, ingredient_list, favorites,
                 shopping_cart, requests>>

\* Unsubscribing with filter(...).delete() instead of get_object_or_404
subscribe_delete_filter(user, id) ==
  /\ req' = Request("unsubscribe", user, id, NoPayload)
  /\ subscriptions' = Delete(subscriptions, user, id)
  /\ resp' = Response(HTTP_204_NO_CONTENT, NoBody)
  /\ UNCHANGED <<users, catalog, recipes, next_recipe_id, ingredient_list, favorites,
                 shopping_cart, requests>>

\* DELETE /users/{id}/subscribe/
subscribe_delete(user, id) ==
  /\ req' = Request("unsubscribe", user, id, NoPayload)
  /\ IF id \notin users \/ ~Exists(subscriptions, user, id)
     THEN /\ resp' = Response(NotFound, NoBody)
          /\ UNCHANGED subscriptions
     ELSE /\ subscriptions' = DeleteInstance(subscriptions, user, id)
          /\ resp' = Response(HTTP_204_NO_CONTENT, NoBody)
  /\ UNCHANGED <<users, catalog, recipes, next_recipe_id, ingredient_list, favorites,
                 shopping_cart, requests>>

\* --------------------------------------------------- recipe write: validate
\* IngredientInRecipeSerializer.validate_amount
validate_amount(value) ==
  IF value <= 0 THEN ValidationError ELSE Valid

\* The ingredients field itself: a list serializer with allow_empty=False
\* whose children validate their amount.
ingredients_field(ingredients) ==
  IF Len(ingredients) = 0 THEN ValidationError
  ELSE IF \E i \in DOMAIN ingredients :
            validate_amount(ingredients[i].amount) # Valid
  THEN ValidationError
  ELSE Valid

\* The tags field itself: PrimaryKeyRelatedField(queryset=Tag.objects.all(),
\* many=True, allow_empty=False).
tags_field(tags) ==
  IF Len(tags) = 0 THEN ValidationError
  ELSE IF \E i \in DOMAIN tags : tags[i] \notin TagIds THEN ValidationError
  ELSE Valid

\* Recipe.cooking_time without its validator
cooking_time_field_no_min(value) == Valid

\* Recipe.cooking_time: MinValueValidator(1)
cooking_time_field(value) ==
  IF value < 1 THEN ValidationError ELSE Valid

\* RecipeWriteSerializer.validate_ingredients: the loop over the items, in
\* order; get_object_or_404 raises on the first unknown id it meets, the
\* duplicate check on the first repeated id.
RECURSIVE validate_ingredients_from(_, _, _)
validate_ingredients_from(ingredients, i, ingredients_set) ==
  IF i > Len(ingredients) THEN Valid
  ELSE IF ingredients[i].id \notin DOMAIN Ingredient THEN NotFound
  ELSE IF ingredients[i].id \in ingredients_set THEN ValidationError
  ELSE validate_ingredients_from(ingredients, i + 1,
                                 ingredients_set \cup {ingredients[i].id})

\* validate_ingredients without the check for a repeated id
validate_ingredients_exists_only(ingredients) ==
  IF \E i \in DOMAIN ingredients : ingredients[i].id \notin DOMAIN Ingredient
  THEN NotFound
  ELSE Valid

\* validate_ingredients reporting an unknown id as a ValidationError
validate_ingredients_invalid_pk(ingredients) ==
  IF validate_ingredients_from(ingredients, 1, {}) = Valid
  THEN Valid
  ELSE ValidationError

validate_ingredients(ingredients) ==
  validate_ingredients_from(ingredients, 1, {})

\* RecipeWriteSerializer.validate_tags: Counter(tags), any count > 1
validate_tags(tags) ==
  IF \E i, j \in DOMAIN tags : i # j /\ tags[i] = tags[j]
  THEN ValidationError
  ELSE Valid

\* RecipeWriteSerializer.validate
validate(data) ==
  LET ingredients == validate_ingredients(data.ingredients) IN
  IF ingredients # Valid THEN ingredients ELSE validate_tags(data.tags)

\* serializer.is_valid(raise_exception=True): the fields in the order of
\* Meta.fields (ingredients, tags, ..., cooking_time), each followed by its
\* validate_<field> method; a ValidationError is collected and the next field
\* is looked at, an Http404 leaves at once; validate() runs when no field
\* failed.
is_valid(data) ==
  LET ingredients ==
        IF ingredients_field(data.ingredients) # Valid
        THEN ValidationError
        ELSE validate_ingredients(data.ingredients)
      tags ==
        IF tags_field(data.tags) # Valid
        THEN ValidationError
        ELSE validate_tags(data.tags)
      cooking_time == cooking_time_field(data.cooking_time)
  IN IF ingredients = NotFound THEN NotFound
     ELSE IF ingredients # Valid \/ tags # Valid \/ cooking_time # Valid
     THEN ValidationError
     ELSE validate(data)

\* ------------------------------------------------------ recipe write: store
\* The objects built with the amount of the last item in each of them
ingredient_objects_last_amount(ingredients) ==
  [i \in DOMAIN ingredients |->
     [ingredient |-> ingredients[i].id,
      amount |-> ingredients[Len(ingredients)].amount]]

\* The IngredientInRecipe objects built from the payload, in its order
ingredient_objects(ingredients) ==
  [i \in DOMAIN ingredients |->
     [ingredient |-> ingredients[i].id, amount |-> ingredients[i].amount]]

\* RecipeWriteSerializer.create_ingredients_amounts: bulk_create
create_ingredients_amounts(ingredients, rows) ==
  rows \o ingredient_objects(ingredients)

\* update_ingredients_amounts as a bulk_update of the existing rows, paired
\* with the new items by zip(): no row is deleted and none is created
update_ingredients_amounts_zip(ingredients, rows) ==
  [i \in DOMAIN rows |->
     IF i <= Len(ingredients)
     THEN ingredient_objects(ingredients)[i]
     ELSE rows[i]]

\* RecipeWriteSerializer.update_ingredients_amounts: delete every row of the
\* recipe, then bulk_create the new ones
update_ingredients_amounts(ingredients, rows) ==
  ingredient_objects(ingredients)

\* RecipeReadSerializer.get_ingredients: the ingredients of the recipe, each
\* with the amount of the IngredientInRecipe row that links it to the recipe
get_ingredients(rows) ==
  [i \in DOMAIN rows |->
     [id |-> rows[i].ingredient,
      name |-> Ingredient[rows[i].ingredient].name,
      measurement_unit |-> Ingredient[rows[i].ingredient].measurement_unit,
      amount |-> rows[i].amount]]

\* A flag that looks at the rows of every user
get_is_favorited_any_user(table, user, pk) ==
  \E u \in Users : Exists(table, u, pk)

\* RecipeReadSerializer.get_is_favorited / get_is_in_shopping_cart
get_is_favorited(table, user, pk) == Exists(table, user, pk)

\* RecipeReadSerializer over a recipe row, its ingredient rows and the
\* relation tables
RecipeReadSerializer(user, pk, recipe, rows) ==
  [id |-> pk,
   tags |-> recipe.tags,
   author |-> recipe.author,
   ingredients |-> get_ingredients(rows),
   is_favorited |-> get_is_favorited(favorites, user, pk),
   is_in_shopping_cart |-> get_is_favorited(shopping_cart, user, pk),
   cooking_time |-> recipe.cooking_time]

\* api.permissions.IsAuthorOrReadOnly on an unsafe method
IsAuthorOrReadOnly(user, recipe) == recipe.author = user

\* The users with the administrator flag
Admins == {2}
\* api.permissions.IsAdminOrReadOnly on an unsafe method
IsAdminOrReadOnly(user) == user \in Admins

\* validated_data with the author of the payload kept in it
validated_data_with_author(data) == data

\* serializer.validated_data: author is a read-only field of
\* RecipeWriteSerializer, so an author in the payload is left out
validated_data(data) == [x \in DOMAIN data \ {"author"} |-> data[x]]

\* POST /recipes/: perform_create saves with author=request.user;
\* RecipeWriteSerializer.create
create(user, data) ==
  LET valid == is_valid(data)
      pk == next_recipe_id
      recipe == [author |-> user, tags |-> Range(data.tags),
                 cooking_time |-> data.cooking_time]
      rows == create_ingredients_amounts(data.ingredients, <<>>)
  IN
  /\ next_recipe_id \in RecipeIds
  /\ req' = Request("create", user, pk, data)
  /\ IF valid # Valid
     THEN /\ resp' = Response(valid, NoBody)
          /\ UNCHANGED <<recipes, next_recipe_id, ingredient_list>>
     ELSE /\ recipes' = [recipes EXCEPT ![pk] = recipe]
          /\ next_recipe_id' = pk + 1
          /\ ingredient_list' = [ingredient_list EXCEPT ![pk] = rows]
          /\ resp' = Response(HTTP_201_CREATED,
                              RecipeReadSerializer(user, pk, recipe, rows))
  /\ UNCHANGED <<users, catalog, favorites, shopping_cart, subscriptions, requests>>

\* An update that deletes the ingredient rows of the recipe before it
\* validates the payload
update_delete_before_is_valid(user, pk, data) ==
  LET valid == is_valid(data)
      recipe == [author |-> recipes[pk].author,
                 tags |-> Range(data.tags),
                 cooking_time |-> data.cooking_time]
      rows == update_ingredients_amounts(data.ingredients,
                                         ingredient_list[pk])
  IN
  /\ req' = Request("update", user, pk, data)
  /\ IF ~RecipeExists(pk)
     THEN /\ resp' = Response(NotFound, NoBody)
          /\ UNCHANGED <<recipes, ingredient_list>>
     ELSE IF ~(IsAuthorOrReadOnly(user, recipes[pk]) \/ IsAdminOrReadOnly(user))
     THEN /\ resp' = Response(PermissionDenied, NoBody)
          /\ UNCHANGED <<recipes, ingredient_list>>
     ELSE IF valid # Valid
     THEN /\ resp' = Response(valid, NoBody)
          /\ ingredient_list' = [ingredient_list EXCEPT ![pk] = <<>>]
          /\ UNCHANGED recipes
     ELSE /\ recipes' = [recipes EXCEPT ![pk] = recipe]
          /\ ingredient_list' = [ingredient_list EXCEPT ![pk] = rows]
          /\ resp' = Response(HTTP_200_OK,
                              RecipeReadSerializer(user, pk, recipe, rows))
  /\ UNCHANGED <<users, catalog, next_recipe_id, favorites, shopping_cart, subscriptions,
                 requests>>

\* An update that deletes the recipe and stores a new one under its pk: the
\* Favourite and ShoppingCart rows of the recipe go with the deleted row
update_by_delete_and_create(user, pk, data) ==
  LET valid == is_valid(data)
      recipe == [author |-> recipes[pk].author,
                 tags |-> Range(data.tags),
                 cooking_time |-> data.cooking_time]
      rows == update_ingredients_amounts(data.ingredients,
                                         ingredient_list[pk])
  IN
  /\ req' = Request("update", user, pk, data)
  /\ IF ~RecipeExists(pk)
     THEN /\ resp' = Response(NotFound, NoBody)
          /\ UNCHANGED <<recipes, ingredient_list, favorites, shopping_cart>>
     ELSE IF ~(IsAuthorOrReadOnly(user, recipes[pk]) \/ IsAdminOrReadOnly(user))
     THEN /\ resp' = Response(PermissionDenied, NoBody)
          /\ UNCHANGED <<recipes, ingredient_list, favorites, shopping_cart>>
     ELSE IF valid # Valid
     THEN /\ resp' = Response(valid, NoBody)
          /\ UNCHANGED <<recipes, ingredient_list, favorites, shopping_cart>>
     ELSE /\ recipes' = [recipes EXCEPT ![pk] = recipe]
          /\ ingredient_list' = [ingredient_list EXCEPT ![pk] = rows]
          /\ favorites' = [p \in DOMAIN favorites |->
                             IF p[2] = pk THEN 0 ELSE favorites[p]]
          /\ shopping_cart' = [p \in DOMAIN shopping_cart |->
                                 IF p[2] = pk THEN 0 ELSE shopping_cart[p]]
          /\ resp' = Response(HTTP_200_OK,
                              RecipeReadSerializer(user, pk, recipe, rows))
  /\ UNCHANGED <<users, catalog, next_recipe_id, subscriptions, requests>>

\* PUT /recipes/{pk}/: get_object, the object permission, is_valid,
\* RecipeWriteSerializer.update
update(user, pk, data) ==
  LET valid == is_valid(data)
      validated == validated_data(data)
      recipe == [author |-> IF "author" \in DOMAIN validated
                            THEN validated.author
                            ELSE recipes[pk].author,
                 tags |-> Range(data.tags),
                 cooking_time |-> data.cooking_time]
      rows == update_ingredients_amounts(data.ingredients,
                                         ingredient_list[pk])
  IN
  /\ req' = Request("update", user, pk, data)
  /\ IF ~RecipeExists(pk)
     THEN /\ resp' = Response(NotFound, NoBody)
          /\ UNCHANGED <<recipes, ingredient_list>>
     ELSE IF ~(IsAuthorOrReadOnly(user, recipes[pk]) \/ IsAdminOrReadOnly(user))
     THEN /\ resp' = Response(PermissionDenied, NoBody)
          /\ UNCHANGED <<recipes, ingredient_list>>
     ELSE IF valid # Valid
     THEN /\ resp' = Response(valid, NoBody)
          /\ UNCHANGED <<recipes, ingredient_list>>
     ELSE /\ recipes' = [recipes EXCEPT ![pk] = recipe]
          /\ ingredient_list' = [ingredient_list EXCEPT ![pk] = rows]
          /\ resp' = Response(HTTP_200_OK,
                              RecipeReadSerializer(user, pk, recipe, rows))
  /\ UNCHANGED <<users, catalog, next_recipe_id, favorites, shopping_cart, subscriptions,
                 requests>>

\* is_valid of a serializer built with partial=True: a field the payload
\* omits is skipped together with its validate_<field> method; validate()
\* then reads data.get('ingredients') and data.get('tags'), which are None
\* for an omitted field: validate_ingredients(None) iterates over None and
\* raises TypeError, validate_tags(None) counts nothing and returns None
is_valid_partial(data) ==
  LET ingredients ==
        IF "ingredients" \notin DOMAIN data THEN Valid
        ELSE IF ingredients_field(data.ingredients) # Valid
        THEN ValidationError
        ELSE validate_ingredients(data.ingredients)
      tags ==
        IF "tags" \notin DOMAIN data THEN Valid
        ELSE IF tags_field(data.tags) # Valid THEN ValidationError
        ELSE validate_tags(data.tags)
      cooking_time ==
        IF "cooking_time" \notin DOMAIN data THEN Valid
        ELSE cooking_time_field(data.cooking_time)
  IN IF ingredients = NotFound THEN NotFound
     ELSE IF ingredients # Valid \/ tags # Valid \/ cooking_time # Valid
     THEN ValidationError
     ELSE IF "ingredients" \notin DOMAIN data THEN UnhandledException
     ELSE IF "tags" \notin DOMAIN data
     THEN validate_ingredients(data.ingredients)
     ELSE validate(data)

\* PATCH /recipes/{pk}/: get_object, the object permission, is_valid of the
\* partial serializer, RecipeWriteSerializer.update, each of its queries
\* committed on its own: super().update saves the fields supplied,
\* tags.clear() empties the tag set, and tags.set(None) raises TypeError
\* when the payload has no tags
partial_update(user, pk, data) ==
  LET valid == is_valid_partial(data)
      saved == [recipes[pk] EXCEPT !.cooking_time =
                  IF "cooking_time" \in DOMAIN data
                  THEN data.cooking_time
                  ELSE @]
  IN
  /\ req' = Request("partial_update", user, pk, data)
  /\ IF ~RecipeExists(pk)
     THEN /\ resp' = Response(NotFound, NoBody)
          /\ UNCHANGED <<recipes, ingredient_list>>
     ELSE IF ~(IsAuthorOrReadOnly(user, recipes[pk]) \/ IsAdminOrReadOnly(user))
     THEN /\ resp' = Response(PermissionDenied, NoBody)
          /\ UNCHANGED <<recipes, ingredient_list>>
     ELSE IF valid # Valid
     THEN /\ resp' = Response(valid, NoBody)
          /\ UNCHANGED <<recipes, ingredient_list>>
     ELSE IF "tags" \notin DOMAIN data
     THEN /\ recipes' = [recipes EXCEPT ![pk] = [saved EXCEPT !.tags = {}]]
          /\ resp' = Response(UnhandledException, NoBody)
          /\ UNCHANGED ingredient_list
     ELSE LET recipe == [saved EXCEPT !.tags = Range(data.tags)]
              rows == update_ingredients_amounts(data.ingredients,
                                                 ingredient_list[pk])
          IN /\ recipes' = [recipes EXCEPT ![pk] = recipe]
             /\ ingredient_list' = [ingredient_list EXCEPT ![pk] = rows]
             /\ resp' = Response(HTTP_200_OK,
                                 RecipeReadSerializer(user, pk, recipe, rows))
  /\ UNCHANGED <<users, catalog, next_recipe_id, favorites, shopping_cart, subscriptions,
                 requests>>

\* GET /recipes/{pk}/ with no query of another request between its own
\* queries
retrieve(user, pk) ==
  /\ req' = Request("retrieve", user, pk, NoPayload)
  /\ IF ~RecipeExists(pk)
     THEN resp' = Response(NotFound, NoBody)
     ELSE resp' = Response(HTTP_200_OK,
                           RecipeReadSerializer(user, pk, recipes[pk],
                                                ingredient_list[pk]))
  /\ UNCHANGED <<users, catalog, db, requests>>

\* -------------------------------------------------- shopping-list export
RECURSIVE SumOver(_, _)
\* The sum of f over the finite set S.
SumOver(S, f) ==
  IF S = {} THEN 0
  ELSE LET x == CHOOSE y \in S : TRUE IN f[x] + SumOver(S \ {x}, f)

\* Grouping by the Ingredient record instead of by its name and unit
values_by_id(row) ==
  <<Ingredient[row.ingredient].name,
    Ingredient[row.ingredient].measurement_unit,
    row.ingredient>>

\* The group of an IngredientInRecipe row under
\* values('ingredient__name', 'ingredient__measurement_unit')
values(row) ==
  <<Ingredient[row.ingredient].name,
    Ingredient[row.ingredient].measurement_unit>>

\* The join without its condition on the user: the ShoppingCart rows of
\* every user
joined_any_user(cart, user, pk) ==
  SumOver(Users, [u \in Users |-> cart[<<u, pk>>]])

\* IngredientInRecipe.objects.filter(recipe__shopping_cart__user=user): the
\* join of the ingredient rows with the user's ShoppingCart rows; the number
\* of times the i-th row of recipe pk is in the join.
joined(cart, user, pk) == cart[<<user, pk>>]

\* Sum('amount') over the rows of the join that fall in one group
Sum(cart, lists, user, group) ==
  SumOver(RecipeIds,
          [pk \in RecipeIds |->
             joined(cart, user, pk) *
             SumOver({i \in DOMAIN lists[pk] : values(lists[pk][i]) = group},
                     [i \in DOMAIN lists[pk] |-> lists[pk][i].amount])])

\* The groups that have a row in the join
groups(cart, lists, user) ==
  UNION {{values(lists[pk][i]) : i \in DOMAIN lists[pk]} :
           pk \in {x \in RecipeIds : joined(cart, user, x) > 0}}

\* The orders in which the database may return the elements of S
Orderings(S) ==
  {f \in [1..Cardinality(S) -> S] :
     \A i, j \in 1..Cardinality(S) : i # j => f[i] # f[j]}

\* .values(...).annotate(amount=Sum('amount')): one entry per group, in one
\* of the orders the database may return them
annotate(cart, lists, user) ==
  {[i \in DOMAIN order |->
      [ingredient__name |-> order[i][1],
       ingredient__measurement_unit |-> order[i][2],
       amount |-> Sum(cart, lists, user, order[i])]] :
     order \in Orderings(groups(cart, lists, user))}

EmptyCartBody == [errors |-> <<"empty shopping cart">>]

\* download_shopping_cart without the test for an empty cart
download_shopping_cart_no_empty_check(user) ==
  /\ req' = Request("download_shopping_cart", user, 0, NoPayload)
  /\ \E ingredients \in annotate(shopping_cart, ingredient_list, user) :
       resp' = Response(HTTP_200_OK,
                        [content_type |-> "application/pdf",
                         ingredients |-> ingredients])
  /\ UNCHANGED <<users, catalog, db, requests>>

\* GET /recipes/download_shopping_cart/
download_shopping_cart(user) ==
  /\ req' = Request("download_shopping_cart", user, 0, NoPayload)
  /\ IF ~(\E pk \in RecipeIds : Exists(shopping_cart, user, pk))
     THEN resp' = Response(HTTP_200_OK, EmptyCartBody)
     ELSE \E ingredients \in annotate(shopping_cart, ingredient_list, user) :
            resp' = Response(HTTP_200_OK,
                             [content_type |-> "application/pdf",
                              ingredients |-> ingredients])
  /\ UNCHANGED <<users, catalog, db, requests>>

\* ---------------------------------------------------------- recipe list
\* request.user of a request without credentials (AnonymousUser)
Anonymous == 0
is_authenticated(user) == user \in users

\* Recipe.objects.all(): a queryset is the bag of the recipes in it
Recipe_objects_all == [pk \in RecipeIds |-> IF RecipeExists(pk) THEN 1 ELSE 0]

\* queryset.filter(favorites__user=user) / filter(shopping_cart__user=user):
\* the join of the queryset with the user's rows of the table
filter_user(queryset, table, user) ==
  [pk \in RecipeIds |-> queryset[pk] * table[<<user, pk>>]]

\* A flag filter that selects the complement for the value False
RecipeFilter_method_exclude(queryset, table, user, value) ==
  IF is_authenticated(user) /\ value = "True"
  THEN filter_user(queryset, table, user)
  ELSE IF is_authenticated(user) /\ value = "False"
  THEN [pk \in RecipeIds |->
          IF table[<<user, pk>>] = 0 THEN queryset[pk] ELSE 0]
  ELSE queryset

\* RecipeFilter.get_is_favorited / get_is_in_shopping_cart on the value of
\* the BooleanFilter: "True", "False", or "None" when the parameter is absent
RecipeFilter_method(queryset, table, user, value) ==
  IF value = "True" /\ is_authenticated(user)
  THEN filter_user(queryset, table, user)
  ELSE queryset

\* RecipeFilter.tags: the recipes with one of the tags given, each once;
\* no tag given, no filter
RecipeFilter_tags(queryset, tags) ==
  IF tags = {} THEN queryset
  ELSE [pk \in RecipeIds |->
          IF recipes[pk].tags \cap tags # {} THEN queryset[pk] ELSE 0]

\* RecipeFilter.Meta.fields author: the recipes of the author given (0: the
\* parameter is absent)
RecipeFilter_author(queryset, author) ==
  IF author = 0 THEN queryset
  ELSE [pk \in RecipeIds |->
          IF recipes[pk].author = author THEN queryset[pk] ELSE 0]

\* RecipeFilter over the recipes
RecipeFilter(user, params) ==
  LET by_tags == RecipeFilter_tags(Recipe_objects_all, params.tags)
      by_author == RecipeFilter_author(by_tags, params.author)
      favorited == RecipeFilter_method(by_author, favorites, user,
                                       params.is_favorited)
  IN RecipeFilter_method(favorited, shopping_cart, user,
                         params.is_in_shopping_cart)

\* GET /recipes/ with the query parameters params
list(user, params) ==
  /\ req' = Request("list", user, 0, params)
  /\ resp' = Response(HTTP_200_OK, [results |-> RecipeFilter(user, params)])
  /\ UNCHANGED <<users, catalog, db, requests>>

\* -------------------------------------------------- subscriptions listing
DigitCharacters == <<"0", "1", "2", "3", "4", "5", "6", "7", "8", "9">>
\* The characters int() skips at both ends of its argument
IntWhitespace == {" "}

RECURSIVE int_strip(_)
\* The argument of int() without the whitespace around it
int_strip(value) ==
  IF value = <<>> THEN value
  ELSE IF Head(value) \in IntWhitespace THEN int_strip(Tail(value))
  ELSE IF value[Len(value)] \in IntWhitespace
  THEN int_strip(SubSeq(value, 1, Len(value) - 1))
  ELSE value

\* Decimal digits, with single underscores allowed between two digits
IsDigits(value) ==
  /\ value # <<>>
  /\ \A i \in DOMAIN value : value[i] \in Range(DigitCharacters) \cup {"_"}
  /\ value[1] # "_" /\ value[Len(value)] # "_"
  /\ \A i \in 1..(Len(value) - 1) : ~(value[i] = "_" /\ value[i + 1] = "_")

RECURSIVE DigitsValue(_)
\* The number written by a string of decimal digits
DigitsValue(value) ==
  IF value = <<>> THEN 0
  ELSE LET last == value[Len(value)]
           digit == CHOOSE i \in DOMAIN DigitCharacters :
                      DigitCharacters[i] = last
       IN 10 * DigitsValue(SubSeq(value, 1, Len(value) - 1)) + (digit - 1)

\* int(limit) of a string: whitespace around the number is skipped, the
\* number has an optional sign and decimal digits that single underscores
\* may separate; anything else is a ValueError
int(value) ==
  LET text == int_strip(value)
      signed == text # <<>> /\ Head(text) \in {"+", "-"}
      digits == IF signed THEN Tail(text) ELSE text
      number == DigitsValue(SelectSeq(digits, LAMBDA c : c # "_"))
  IN IF ~IsDigits(digits) THEN [ok |-> FALSE, number |-> 0]
     ELSE IF signed /\ Head(text) = "-"
     THEN [ok |-> TRUE, number |-> 0 - number]
     ELSE [ok |-> TRUE, number |-> number]

\* request.GET.get(key): the values given for the key (none: the parameter
\* is absent); GET is a set of (key, value) pairs with one value a key
GET_get(GET, key) == {p[2] : p \in {q \in GET : q[1] = key}}

\* get_recipes that does not look at recipes_limit
get_recipes_unlimited(recipes_all, GET) ==
  [ok |-> TRUE, data |-> recipes_all]

\* SubscriptionSerializer.get_recipes over obj.recipes.all() in the order
\* the database returns it: recipes[:int(limit)] when recipes_limit is given
\* and not empty; a limit that is no number or is negative raises
get_recipes(recipes_all, GET) ==
  LET given == GET_get(GET, "recipes_limit") \ {<<>>} IN
  IF given = {} THEN [ok |-> TRUE, data |-> recipes_all]
  ELSE LET limit == int(CHOOSE value \in given : TRUE) IN
       IF ~limit.ok \/ limit.number < 0
       THEN [ok |-> FALSE, data |-> <<>>]
       ELSE [ok |-> TRUE,
             data |-> SubSeq(recipes_all, 1,
                             IF limit.number < Len(recipes_all)
                             THEN limit.number
                             ELSE Len(recipes_all))]

\* SubscriptionSerializer.get_recipes_count: obj.recipes.count()
get_recipes_count(obj) ==
  Cardinality({pk \in RecipeIds :
                 RecipeExists(pk) /\ recipes[pk].author = obj})

\* The join on the subscriber's side: the users who subscribed to the user
subscriber__author(table, user) ==
  [author \in users |-> table[<<author, user>>]]

\* User.objects.filter(subscribing__user=current_user): the join of the users
\* with the Subscription rows that name them as author and current_user as
\* user; the number of times each user is in the join
subscribing__user(table, user) ==
  [author \in users |-> table[<<user, author>>]]

\* GET /users/subscriptions/: the authors the user is subscribed to, each
\* with recipes and recipes_count (results) and the number of times each
\* user is in the listing (count); order is the order in which the database
\* returns the recipes
UserProfileViewSet_subscriptions(user, GET) ==
  LET rows == subscribing__user(subscriptions, user)
      queryset == {author \in users : rows[author] > 0}
  IN
  /\ req' = Request("subscriptions", user, 0, GET)
  /\ \E order \in Orderings({pk \in RecipeIds : RecipeExists(pk)}) :
       LET obj_recipes(obj) ==
             SelectSeq(order, LAMBDA pk : recipes[pk].author = obj)
           data == [obj \in queryset |->
                      [id |-> obj,
                       recipes |-> get_recipes(obj_recipes(obj), GET),
                       recipes_count |-> get_recipes_count(obj)]]
       IN IF \E obj \in queryset : ~data[obj].recipes.ok
          THEN resp' = Response(UnhandledException, NoBody)
          ELSE resp' = Response(HTTP_200_OK,
                 [results |->
                    [obj \in queryset |->
                       [id |-> obj,
                        recipes |-> [i \in DOMAIN data[obj].recipes.data |->
                          RecipeShortSerializer(data[obj].recipes.data[i])],
                        recipes_count |-> data[obj].recipes_count]],
                  count |-> rows])
  /\ UNCHANGED <<users, catalog, db, requests>>

\* ------------------------------------------------ shopping-list document
\* The vertical positions of the header block: the title, the date and the
\* column titles
TitleY == 550
DateY == 530
ColumnsY == 500
\* y = 480 before the loop over the lines, y -= 20 after each of them
FirstLineY == 480
LineStep == 20

RECURSIVE str(_)
\* str(amount) of a non-negative integer: its decimal digits
str(n) ==
  IF n < 10 THEN <<DigitCharacters[n + 1]>>
  ELSE str(n \div 10) \o <<DigitCharacters[(n % 10) + 1]>>

\* c.drawString(x, y, text)
drawString(x, y, text) == [x |-> x, y |-> y, text |-> text]

RECURSIVE draw_lines_wrapping(_, _, _)
\* The loop over the lines that starts again at the top when it reaches the
\* bottom of the page
draw_lines_wrapping(ingredients, i, y) ==
  IF i > Len(ingredients) THEN <<>>
  ELSE <<drawString(50, y, ingredients[i].ingredient__name),
         drawString(450, y, str(ingredients[i].amount)),
         drawString(250, y, ingredients[i].ingredient__measurement_unit)>>
       \o draw_lines_wrapping(ingredients, i + 1,
                              IF y - LineStep <= 0
                              THEN FirstLineY
                              ELSE y - LineStep)

RECURSIVE draw_lines(_, _, _)
\* for ingredient in ingredients: the name, the amount and the unit drawn at
\* y, then y -= 20; the strings drawn from line i on
draw_lines(ingredients, i, y) ==
  IF i > Len(ingredients) THEN <<>>
  ELSE <<drawString(50, y, ingredients[i].ingredient__name),
         drawString(450, y, str(ingredients[i].amount)),
         drawString(250, y, ingredients[i].ingredient__measurement_unit)>>
       \o draw_lines(ingredients, i + 1, y - LineStep)

\* The pages of the canvas: the header block and the lines are drawn, then
\* c.showPage() ends the one page and c.save() writes the document
canvas(user, ingredients) ==
  <<<<drawString(50, TitleY, <<"title", user>>),
      drawString(50, DateY, "today"),
      drawString(50, ColumnsY, "name"),
      drawString(250, ColumnsY, "measurement_unit"),
      drawString(450, ColumnsY, "amount")>>
    \o draw_lines(ingredients, 1, FirstLineY)>>

\* download_shopping_cart from the consolidated list on: the document drawn
\* for the list ingredients of the user
draw_shopping_cart(user, ingredients) ==
  /\ req' = Request("draw_shopping_cart", user, 0, ingredients)
  /\ resp' = Response(HTTP_200_OK,
                      [content_type |-> "application/pdf",
                       pages |-> canvas(user, ingredients)])
  /\ UNCHANGED <<users, catalog, db, requests>>

\* ------------------------------------------------------ tags and catalog
\* A string is the sequence of its characters.
AsciiLower == {"a", "b", "c", "d", "e", "l", "m", "r", "s", "t", "u", "y"}
AsciiUpper == {"A", "B", "M", "S"}
Whitespace == {" "}
\* The characters of the model: letters, the underscore, the space, the
\* hyphen, a punctuation mark and the Cyrillic letter U+044F, which is outside
\* ASCII and which NFKD does not decompose
Characters ==
  AsciiLower \cup AsciiUpper \cup Whitespace \cup {"_", "-", "!", "U+044F"}

\* str.lower() on one character
lower(c) ==
  CASE c = "A" -> "a"
    [] c = "B" -> "b"
    [] c = "M" -> "m"
    [] c = "S" -> "s"
    [] OTHER -> c

\* encode('ascii', 'ignore') keeps the character
IsAscii(c) == c # "U+044F"
\* The character is in the class [\w\s-]
IsWordSpaceHyphen(c) ==
  c \in AsciiLower \cup AsciiUpper \cup Whitespace \cup {"_", "-"}
\* The character is in the class [-\s]
IsHyphenSpace(c) == c \in Whitespace \cup {"-"}

RECURSIVE collapse(_, _)
\* re.sub(r'[-\s]+', '-', value); in_run: the character before was in the
\* class
collapse(value, in_run) ==
  IF value = <<>> THEN <<>>
  ELSE IF IsHyphenSpace(Head(value))
  THEN (IF in_run THEN <<>> ELSE <<"-">>) \o collapse(Tail(value), TRUE)
  ELSE <<Head(value)>> \o collapse(Tail(value), FALSE)

RECURSIVE lstrip(_)
\* The value without its leading hyphens and underscores
lstrip(value) ==
  IF value # <<>> /\ Head(value) \in {"-", "_"}
  THEN lstrip(Tail(value))
  ELSE value

RECURSIVE rstrip(_)
\* The value without its trailing hyphens and underscores
rstrip(value) ==
  IF value # <<>> /\ value[Len(value)] \in {"-", "_"}
  THEN rstrip(SubSeq(value, 1, Len(value) - 1))
  ELSE value

\* django.utils.text.slugify(value): to ASCII, to lower case, without the
\* characters outside [\w\s-], the runs of hyphens and spaces as one hyphen,
\* without leading and trailing hyphens and underscores
slugify(value) ==
  LET ascii == SelectSeq(value, IsAscii)
      lowered == [i \in DOMAIN ascii |-> lower(ascii[i])]
      kept == SelectSeq(lowered, IsWordSpaceHyphen)
  IN rstrip(lstrip(collapse(kept, FALSE)))

\* django.core.exceptions.ValidationError raised by Tag.save
SlugTaken == "ValidationError_slug_taken"

\* unique=True on Tag.name, Tag.color and Tag.slug: no two rows agree in one
\* of the columns
TagUnique(rows) ==
  \A i, j \in DOMAIN rows :
    i # j => /\ rows[i].name # rows[j].name
             /\ rows[i].color # rows[j].color
             /\ rows[i].slug # rows[j].slug

\* The rows of the table after super().save() of the instance: an INSERT
\* when the instance has no pk (0), an UPDATE of its row otherwise
Saved(rows, pk, row) ==
  IF pk = 0 THEN Append(rows, row) ELSE [rows EXCEPT ![pk] = row]

\* Tag.save() of the instance with primary key pk (0: a new instance) and
\* the fields of tag
Tag_save(pk, tag) ==
  LET slug == slugify(tag.slug)
      taken == \E i \in DOMAIN tag_table :
                 tag_table[i].slug = slug /\ i # pk
      rows == Saved(tag_table, pk, [tag EXCEPT !.slug = slug])
  IN
  /\ pk \in {0} \cup DOMAIN tag_table
  /\ req' = Request("Tag.save", 0, pk, tag)
  /\ IF taken
     THEN resp' = Response(SlugTaken, NoBody) /\ UNCHANGED tag_table
     ELSE IF ~TagUnique(rows)
     THEN resp' = Response(IntegrityError, NoBody) /\ UNCHANGED tag_table
     ELSE resp' = Response(HTTP_200_OK, NoBody) /\ tag_table' = rows
  /\ UNCHANGED <<db, users, ingredient_table, loads, requests>>

\* The run of a load command on a file is counted
Loaded(command, file) ==
  /\ loads[command].runs < MaxLoads
  /\ loads' = [loads EXCEPT ![command] =
                 [file |-> file, runs |-> @.runs + 1]]

\* manage.py load_tags: Tag.objects.bulk_create of the rows of the file, in
\* one INSERT that the unique columns refuse as a whole; Tag.save is not
\* called
load_tags(file) ==
  LET rows == tag_table \o file IN
  /\ Loaded("load_tags", file)
  /\ req' = Request("load_tags", 0, 0, file)
  /\ IF ~TagUnique(rows)
     THEN resp' = Response(IntegrityError, NoBody) /\ UNCHANGED tag_table
     ELSE resp' = Response(HTTP_200_OK, NoBody) /\ tag_table' = rows
  /\ UNCHANGED <<db, users, ingredient_table, requests>>

\* load_ingredients that skips the rows the table holds already
load_ingredients_skip_existing(file) ==
  /\ Loaded("load_ingredients", file)
  /\ req' = Request("load_ingredients", 0, 0, file)
  /\ ingredient_table' =
       ingredient_table \o
         SelectSeq(file, LAMBDA row : row \notin Range(ingredient_table))
  /\ resp' = Response(HTTP_200_OK, NoBody)
  /\ UNCHANGED <<db, users, tag_table, requests>>

\* manage.py load_ingredients: Ingredient.objects.bulk_create of the rows of
\* the file; no column of Ingredient is unique
load_ingredients(file) ==
  /\ Loaded("load_ingredients", file)
  /\ req' = Request("load_ingredients", 0, 0, file)
  /\ ingredient_table' = ingredient_table \o file
  /\ resp' = Response(HTTP_200_OK, NoBody)
  /\ UNCHANGED <<db, users, tag_table, requests>>

\* ------------------------------------------------------- ingredient list
RECURSIVE strip(_)
\* forms.CharField(strip=True), the field of a CharFilter: the value without
\* its leading and trailing whitespace
strip(value) ==
  IF value # <<>> /\ Head(value) \in Whitespace THEN strip(Tail(value))
  ELSE IF value # <<>> /\ value[Len(value)] \in Whitespace
  THEN strip(SubSeq(value, 1, Len(value) - 1))
  ELSE value

\* The lookup istartswith: the name begins with the value, letters compared
\* without regard to their case
istartswith(name, value) ==
  /\ Len(value) <= Len(name)
  /\ [i \in DOMAIN value |-> lower(name[i])] =
       [i \in DOMAIN value |-> lower(value[i])]

\* IngredientFilter with the lookup startswith
IngredientFilter_startswith(rows, name) ==
  LET value == strip(name) IN
  IF value = <<>> THEN DOMAIN rows
  ELSE {pk \in DOMAIN rows :
          /\ Len(value) <= Len(rows[pk].name)
          /\ SubSeq(rows[pk].name, 1, Len(value)) = value}

\* IngredientFilter: name = CharFilter(lookup_expr='istartswith'); the
\* cleaned value of the parameter, no filter when it is empty; the primary
\* keys of the rows that pass
IngredientFilter(rows, name) ==
  LET value == strip(name) IN
  IF value = <<>> THEN DOMAIN rows
  ELSE {pk \in DOMAIN rows : istartswith(rows[pk].name, value)}

\* GET /ingredients/?name=...: IngredientViewSet.list with IngredientSerializer
IngredientViewSet_list(name) ==
  /\ req' = Request("ingredients", Anonymous, 0, name)
  /\ resp' = Response(HTTP_200_OK,
       [results |-> {[id |-> pk,
                      name |-> ingredient_table[pk].name,
                      measurement_unit |->
                        ingredient_table[pk].measurement_unit] :
                       pk \in IngredientFilter(ingredient_table, name)}])
  /\ UNCHANGED <<users, catalog, db, requests>>

\* ------------------------------------------------------------- deletion
\* A foreign key that leaves the rows of the table in place when the rows
\* they refer to are deleted
on_delete_DO_NOTHING(table, column, deleted) == table

\* on_delete=models.CASCADE on a column of Favourite, ShoppingCart or
\* Subscription: the rows whose column refers to a deleted row go with it
on_delete_CASCADE(table, column, deleted) ==
  [p \in DOMAIN table |-> IF p[column] \in deleted THEN 0 ELSE table[p]]

\* instance.delete() of the recipes in deleted: the rows of the recipes and,
\* by IngredientInRecipe.recipe, Favourite.recipe and ShoppingCart.recipe,
\* the rows that refer to them
DeleteRecipes(deleted) ==
  /\ recipes' = [pk \in RecipeIds |->
                   IF pk \in deleted THEN NoRecipe ELSE recipes[pk]]
  /\ ingredient_list' = [pk \in RecipeIds |->
                           IF pk \in deleted THEN <<>>
                           ELSE ingredient_list[pk]]

\* DELETE /recipes/{pk}/: get_object, the object permission,
\* instance.delete()
destroy(user, pk) ==
  /\ req' = Request("destroy", user, pk, NoPayload)
  /\ IF ~RecipeExists(pk)
     THEN /\ resp' = Response(NotFound, NoBody)
          /\ UNCHANGED <<recipes, ingredient_list, favorites, shopping_cart>>
     ELSE IF ~(IsAuthorOrReadOnly(user, recipes[pk])
               \/ IsAdminOrReadOnly(user))
     THEN /\ resp' = Response(PermissionDenied, NoBody)
          /\ UNCHANGED <<recipes, ingredient_list, favorites, shopping_cart>>
     ELSE /\ DeleteRecipes({pk})
          /\ favorites' = on_delete_CASCADE(favorites, 2, {pk})
          /\ shopping_cart' = on_delete_CASCADE(shopping_cart, 2, {pk})
          /\ resp' = Response(HTTP_204_NO_CONTENT, NoBody)
  /\ UNCHANGED <<users, catalog, next_recipe_id, subscriptions, requests>>

\* The deletion of user id (DELETE /users/{id}/ of djoser's UserViewSet, or
\* the admin site): the user's row and, by Recipe.author, the user's recipes
\* with everything that refers to them, and by the user and author columns
\* of Favourite, ShoppingCart and Subscription the rows of those tables
delete_user(id) ==
  LET authored == {pk \in RecipeIds :
                     RecipeExists(pk) /\ recipes[pk].author = id}
  IN
  /\ id \in users
  /\ req' = Request("delete_user", id, id, NoPayload)
  /\ users' = users \ {id}
  /\ DeleteRecipes(authored)
  /\ favorites' =
       on_delete_CASCADE(on_delete_CASCADE(favorites, 1, {id}), 2, authored)
  /\ shopping_cart' =
       on_delete_CASCADE(on_delete_CASCADE(shopping_cart, 1, {id}),
                         2, authored)
  /\ subscriptions' =
       on_delete_CASCADE(on_delete_CASCADE(subscriptions, 1, {id}), 2, {id})
  /\ resp' = Response(HTTP_204_NO_CONTENT, NoBody)
  /\ UNCHANGED <<catalog, next_recipe_id, requests>>

\* --------------------------------------------- concurrent add / remove
\* A request in flight: an add runs its serializer's existence check in one
\* database query and its insert in a later one.
Idle == [op |-> "none", rel |-> "none", user |-> 0, target |-> 0,
         pc |-> "idle", status |-> "none"]

Relations == {"favorite", "shopping_cart", "subscribe"}

\* The serializer's check of an add to relation rel
rel_validate(rel, user, target) ==
  CASE rel = "favorite" -> FavouriteSerializer_validate(user, target)
    [] rel = "shopping_cart" -> ShoppingCartSerializer_validate(user, target)
    [] rel = "subscribe" -> SubscriptionSerializer_validate(user, target)

Table(rel) ==
  CASE rel = "favorite" -> favorites
    [] rel = "shopping_cart" -> shopping_cart
    [] rel = "subscribe" -> subscriptions

\* The tables with the table of relation rel replaced by t
SetTable(rel, t) ==
  /\ favorites' = IF rel = "favorite" THEN t ELSE favorites
  /\ shopping_cart' = IF rel = "shopping_cart" THEN t ELSE shopping_cart
  /\ subscriptions' = IF rel = "subscribe" THEN t ELSE subscriptions

\* serializer.is_valid(raise_exception=True) of request n
add_is_valid(n, rel, user, target) ==
  LET valid == rel_validate(rel, user, target) IN
  /\ requests[n].pc = "idle"
  /\ requests' = [requests EXCEPT ![n] =
       [op |-> "add", rel |-> rel, user |-> user, target |-> target,
        pc |-> IF valid = Valid THEN "validated" ELSE "done",
        status |-> IF valid = Valid THEN "none" ELSE valid]]
  /\ UNCHANGED <<users, catalog, db, req, resp>>

\* serializer.save() / Subscription.objects.create(...) of request n: the
\* INSERT, refused by the database when the pair is there by now
add_save(n) ==
  LET r == requests[n]
      refused == ~UniqueConstraint(Table(r.rel), r.user, r.target)
  IN
  /\ r.pc = "validated"
  /\ SetTable(r.rel, Create(Table(r.rel), r.user, r.target))
  /\ requests' = [requests EXCEPT ![n] =
       [r EXCEPT !.pc = "done",
                 !.status = IF refused THEN IntegrityError
                            ELSE HTTP_201_CREATED]]
  /\ UNCHANGED <<users, catalog, recipes, next_recipe_id, ingredient_list, req, resp>>

\* DELETE .../favorite/ or .../shopping_cart/ of request n:
\* Favourite / ShoppingCart.objects.filter(user=user, recipe__id=pk).delete(),
\* one statement that answers 204 whether or not a row was there
remove(n, rel, user, target) ==
  /\ requests[n].pc = "idle"
  /\ rel \in {"favorite", "shopping_cart"}
  /\ SetTable(rel, Delete(Table(rel), user, target))
  /\ requests' = [requests EXCEPT ![n] =
       [op |-> "remove", rel |-> rel, user |-> user, target |-> target,
        pc |-> "done", status |-> HTTP_204_NO_CONTENT]]
  /\ UNCHANGED <<users, catalog, recipes, next_recipe_id, ingredient_list, req, resp>>

\* DELETE /users/{id}/subscribe/ of request n, its first query:
\* get_object_or_404(Subscription, user=current_user, author=target_author).
\* The request then holds the row it found (instance "stored").
remove_get_object_or_404(n, user, target) ==
  LET found == Exists(subscriptions, user, target) IN
  /\ requests[n].pc = "idle"
  /\ requests' = [requests EXCEPT ![n] =
       [op |-> "remove", rel |-> "subscribe", user |-> user,
        target |-> target,
        pc |-> IF found THEN "delete" ELSE "done",
        status |-> IF found THEN "none" ELSE NotFound,
        instance |-> IF found THEN "stored" ELSE "none"]]
  /\ UNCHANGED <<users, catalog, db, req, resp>>

\* The requests other than n that hold the Subscription row of request n:
\* unique_subscription leaves one row for a pair, so they are the requests
\* between the two queries of an unsubscribe of the same pair whose row is
\* still stored
SameInstance(n) ==
  {m \in DOMAIN requests \ {n} :
     /\ requests[m].op = "remove" /\ requests[m].rel = "subscribe"
     /\ requests[m].pc = "delete" /\ requests[m].instance = "stored"
     /\ requests[m].user = requests[n].user
     /\ requests[m].target = requests[n].target}

\* DELETE /users/{id}/subscribe/ of request n, its second query:
\* subscription_instance.delete(), a DELETE by the primary key of the row
\* the request holds. When another request deleted that row in between, the
\* statement affects no row and raises nothing (a row inserted for the pair
\* since then has another primary key and stays); the answer is 204 in
\* both cases.
remove_delete(n) ==
  LET r == requests[n] IN
  /\ r.op = "remove" /\ r.pc = "delete"
  /\ subscriptions' = IF r.instance = "stored"
                      THEN DeleteInstance(subscriptions, r.user, r.target)
                      ELSE subscriptions
  /\ requests' = [m \in DOMAIN requests |->
       IF m = n
       THEN [r EXCEPT !.pc = "done", !.status = HTTP_204_NO_CONTENT]
       ELSE IF r.instance = "stored" /\ m \in SameInstance(n)
       THEN [requests[m] EXCEPT !.instance = "deleted"]
       ELSE requests[m]]
  /\ UNCHANGED <<users, catalog, recipes, next_recipe_id, ingredient_list,
                 favorites, shopping_cart, req, resp>>

\* --------------------------------------------- concurrent recipe writes
\* A recipe write in flight. No statement of RecipeWriteSerializer.create or
\* update runs inside transaction.atomic, so every query of a write commits
\* on its own and the queries of other requests run between them.
WriteRequest(op, user, target, payload, pc, status) ==
  [op |-> op, rel |-> "recipe", user |-> user, target |-> target,
   payload |-> payload, pc |-> pc, status |-> status]

\* POST /recipes/ of request n: serializer.is_valid(raise_exception=True)
create_begin(n, user, data) ==
  LET valid == is_valid(data) IN
  /\ requests[n].pc = "idle"
  /\ requests' = [requests EXCEPT ![n] =
       IF valid = Valid
       THEN WriteRequest("create", user, 0, data, "objects_create", "none")
       ELSE WriteRequest("create", user, 0, data, "done", valid)]
  /\ UNCHANGED <<users, catalog, db, req, resp>>

\* RecipeWriteSerializer.create: Recipe.objects.create(**validated_data), the
\* row of the recipe, with no tag and no ingredient line yet
create_objects_create(n) ==
  LET r == requests[n]
      pk == next_recipe_id
  IN
  /\ r.pc = "objects_create"
  /\ next_recipe_id \in RecipeIds
  /\ recipes' = [recipes EXCEPT ![pk] =
       [author |-> r.user, tags |-> {},
        cooking_time |-> r.payload.cooking_time]]
  /\ next_recipe_id' = pk + 1
  /\ requests' = [requests EXCEPT ![n] =
       WriteRequest(r.op, r.user, pk, r.payload, "tags_set", "none")]
  /\ UNCHANGED <<users, catalog, ingredient_list, favorites, shopping_cart, subscriptions,
                 req, resp>>

\* PUT /recipes/{pk}/ of request n: get_object, the object permission,
\* serializer.is_valid(raise_exception=True)
update_begin(n, user, pk, data) ==
  LET valid ==
        IF ~RecipeExists(pk) THEN NotFound
        ELSE IF ~(IsAuthorOrReadOnly(user, recipes[pk])
                  \/ IsAdminOrReadOnly(user))
        THEN PermissionDenied
        ELSE is_valid(data)
  IN
  /\ requests[n].pc = "idle"
  /\ requests' = [requests EXCEPT ![n] =
       IF valid = Valid
       THEN WriteRequest("update", user, pk, data, "super_update", "none")
       ELSE WriteRequest("update", user, pk, data, "done", valid)]
  /\ UNCHANGED <<users, catalog, db, req, resp>>

\* RecipeWriteSerializer.update: super().update(instance, validated_data)
\* and, at its end, instance.save(): the fields of the instance in memory
\* are written to the row of the recipe
update_instance_save(n) ==
  LET r == requests[n] IN
  /\ r.pc \in {"super_update", "save"}
  /\ recipes' = [recipes EXCEPT ![r.target].cooking_time =
                   r.payload.cooking_time]
  /\ requests' = [requests EXCEPT ![n] =
       IF r.pc = "super_update"
       THEN WriteRequest(r.op, r.user, r.target, r.payload,
                         "tags_clear", "none")
       ELSE WriteRequest(r.op, r.user, r.target, r.payload,
                         "done", HTTP_200_OK)]
  /\ UNCHANGED <<users, catalog, next_recipe_id, ingredient_list, favorites, shopping_cart,
                 subscriptions, req, resp>>

\* RecipeWriteSerializer.update: instance.tags.clear()
update_tags_clear(n) ==
  LET r == requests[n] IN
  /\ r.pc = "tags_clear"
  /\ recipes' = [recipes EXCEPT ![r.target].tags = {}]
  /\ requests' = [requests EXCEPT ![n] =
       WriteRequest(r.op, r.user, r.target, r.payload, "tags_set", "none")]
  /\ UNCHANGED <<users, catalog, next_recipe_id, ingredient_list, favorites, shopping_cart,
                 subscriptions, req, resp>>

\* RecipeWriteSerializer.create / update: recipe.tags.set(tags), its first
\* statement: the ids of the tags stored for the recipe are read (old_ids)
\* and the request keeps them
write_tags_set_old_ids(n) ==
  LET r == requests[n] IN
  /\ r.pc = "tags_set"
  /\ requests' = [requests EXCEPT ![n] =
       [old_ids |-> recipes[r.target].tags]
         @@ WriteRequest(r.op, r.user, r.target, r.payload, "tags_write",
                         "none")]
  /\ UNCHANGED <<users, catalog, db, req, resp>>

\* RecipeWriteSerializer.create / update: recipe.tags.set(tags), its writes,
\* which commit together: the tags of old_ids that the payload does not name
\* are removed and the tags of the payload that old_ids does not hold are
\* added (an insert of a pair that is stored by now is ignored). What other
\* requests wrote since old_ids was read is neither seen nor undone.
write_tags_set(n) ==
  LET r == requests[n]
      tags == Range(r.payload.tags)
  IN
  /\ r.pc = "tags_write"
  /\ recipes' = [recipes EXCEPT ![r.target].tags =
                   (@ \ (r.old_ids \ tags)) \cup (tags \ r.old_ids)]
  /\ requests' = [requests EXCEPT ![n] =
       WriteRequest(r.op, r.user, r.target, r.payload,
                    IF r.op = "create" THEN "bulk_create" ELSE "delete",
                    "none")]
  /\ UNCHANGED <<users, catalog, next_recipe_id, ingredient_list, favorites, shopping_cart,
                 subscriptions, req, resp>>

\* RecipeWriteSerializer.update_ingredients_amounts:
\* IngredientInRecipe.objects.filter(recipe=recipe).delete()
update_delete(n) ==
  LET r == requests[n] IN
  /\ r.pc = "delete"
  /\ ingredient_list' = [ingredient_list EXCEPT ![r.target] = <<>>]
  /\ requests' = [requests EXCEPT ![n] =
       WriteRequest(r.op, r.user, r.target, r.payload, "bulk_create",
                    "none")]
  /\ UNCHANGED <<users, catalog, recipes, next_recipe_id, favorites, shopping_cart,
                 subscriptions, req, resp>>

\* create_ingredients_amounts / update_ingredients_amounts:
\* IngredientInRecipe.objects.bulk_create(ingredient_objects)
write_bulk_create(n) ==
  LET r == requests[n] IN
  /\ r.pc = "bulk_create"
  /\ ingredient_list' = [ingredient_list EXCEPT ![r.target] =
       create_ingredients_amounts(r.payload.ingredients,
                                  ingredient_list[r.target])]
  /\ requests' = [requests EXCEPT ![n] =
       IF r.op = "create"
       THEN WriteRequest(r.op, r.user, r.target, r.payload,
                         "done", HTTP_201_CREATED)
       ELSE WriteRequest(r.op, r.user, r.target, r.payload, "save", "none")]
  /\ UNCHANGED <<users, catalog, recipes, next_recipe_id, favorites, shopping_cart,
                 subscriptions, req, resp>>

\* ------------------------------------------------ concurrent recipe reads
\* A GET /recipes/{pk}/ in flight. ModelViewSet.retrieve runs get_object and
\* then RecipeReadSerializer, whose fields each run a query of their own in
\* the order of Meta.fields: tags, is_favorited, is_in_shopping_cart; the
\* queryset that get_ingredients returns is lazy and runs last, when the
\* response is rendered. No transaction holds the queries together, so the
\* queries of other requests run between them. The request holds what it has
\* read so far.
ReadRequest(user, target, instance, favorited, in_cart, pc, status) ==
  [op |-> "retrieve", rel |-> "recipe", user |-> user, target |-> target,
   instance |-> instance, is_favorited |-> favorited,
   is_in_shopping_cart |-> in_cart, pc |-> pc, status |-> status]

\* GET /recipes/{pk}/ of request n: self.get_object(), the row of the
\* recipe, with its tags not read yet
retrieve_get_object(n, user, pk) ==
  /\ requests[n].pc = "idle"
  /\ requests' = [requests EXCEPT ![n] =
       IF ~RecipeExists(pk)
       THEN ReadRequest(user, pk, NoRecipe, FALSE, FALSE, "done", NotFound)
       ELSE ReadRequest(user, pk, [recipes[pk] EXCEPT !.tags = {}],
                        FALSE, FALSE, "read_tags", "none")]
  /\ UNCHANGED <<users, catalog, db, req, resp>>

\* RecipeReadSerializer of request n, field tags: instance.tags.all()
retrieve_tags(n) ==
  LET r == requests[n] IN
  /\ r.pc = "read_tags"
  /\ requests' = [requests EXCEPT ![n] =
       ReadRequest(r.user, r.target,
                   [r.instance EXCEPT !.tags = recipes[r.target].tags],
                   FALSE, FALSE, "read_is_favorited", "none")]
  /\ UNCHANGED <<users, catalog, db, req, resp>>

\* RecipeReadSerializer of request n, fields is_favorited and
\* is_in_shopping_cart: one query each
retrieve_get_is_favorited(n) ==
  LET r == requests[n] IN
  /\ r.pc \in {"read_is_favorited", "read_is_in_shopping_cart"}
  /\ requests' = [requests EXCEPT ![n] =
       IF r.pc = "read_is_favorited"
       THEN ReadRequest(r.user, r.target, r.instance,
                        get_is_favorited(favorites, r.user, r.target),
                        FALSE, "read_is_in_shopping_cart", "none")
       ELSE ReadRequest(r.user, r.target, r.instance, r.is_favorited,
                        get_is_favorited(shopping_cart, r.user, r.target),
                        "read_ingredients", "none")]
  /\ UNCHANGED <<users, catalog, db, req, resp>>

\* The response of request n is rendered: the queryset of get_ingredients
\* runs, and the answer is the serializer over the row and the tags read
\* before, the ingredient lines stored now and the flags read before
retrieve_get_ingredients(n) ==
  LET r == requests[n] IN
  /\ r.pc = "read_ingredients"
  /\ requests' = [requests EXCEPT ![n] =
       ReadRequest(r.user, r.target, r.instance, r.is_favorited,
                   r.is_in_shopping_cart, "done", HTTP_200_OK)]
  /\ req' = Request("retrieve", r.user, r.target, NoPayload)
  /\ resp' = Response(HTTP_200_OK,
       [RecipeReadSerializer(r.user, r.target, r.instance,
                             ingredient_list[r.target])
          EXCEPT !.is_favorited = r.is_favorited,
                 !.is_in_shopping_cart = r.is_in_shopping_cart])
  /\ UNCHANGED <<users, catalog, db>>

\* ---------------------------------------------------------- specifications
Init ==
  /\ recipes = [pk \in RecipeIds |-> NoRecipe]
  /\ next_recipe_id = 1
  /\ ingredient_list = [pk \in RecipeIds |-> <<>>]
  /\ favorites = EmptyFavourite
  /\ shopping_cart = EmptyShoppingCart
  /\ subscriptions = EmptySubscription
  /\ req = Request("none", 0, 0, NoPayload)
  /\ resp = Response("none", NoBody)
  /\ requests = [n \in 1..NumRequests |-> Idle]
  /\ users = Users
  /\ tag_table = <<>>
  /\ ingredient_table = <<>>
  /\ loads = [command \in {"load_tags", "load_ingredients"} |->
                [file |-> <<>>, runs |-> 0]]

Payload(tags, ingredients, cooking_time) ==
  [tags |-> tags, ingredients |-> ingredients, cooking_time |-> cooking_time]
Item(id, amount) == [id |-> id, amount |-> amount]

\* One valid payload, for the specifications that only need recipes to exist
SeedPayload == Payload(<<1>>, <<Item(1, 1)>>, 1)

\* The relation toggles, one request at a time
Next ==
  \/ next_recipe_id <= MaxRecipes /\ create(1, SeedPayload)
  \/ \E user \in Users, pk \in RecipeIds :
       \/ add_to_favorite(user, pk)
       \/ delete_from_favorite(user, pk)
       \/ add_to_shopping_cart(user, pk)
       \/ delete_from_shopping_cart(user, pk)
  \/ \E user \in Users, id \in Users \cup {NoSuchUser} :
       \/ subscribe_create(user, id)
       \/ subscribe_delete(user, id)

Spec == Init /\ [][Next]_vars

\* The recipe write path with payloads that differ in their lists and amounts
WriteIngredientIds == {1, 4}
WritePayloads ==
  {Payload(tags, ingredients, 1) :
     tags \in {<<1>>, <<2, 1>>},
     ingredients \in SeqUpTo({Item(id, amount) :
                                id \in WriteIngredientIds,
                                amount \in 1..MaxAmount}, 2)}

NextWrite ==
  \/ \E data \in WritePayloads : next_recipe_id = 1 /\ create(1, data)
  \/ \E data \in WritePayloads : update(1, 1, data)
  \/ \E user \in Users : retrieve(user, 1)

SpecWrite == Init /\ [][NextWrite]_vars

\* The recipe write path with payloads that are invalid in every way: an
\* unknown ingredient id, a repeated one, an amount of 0, no ingredients, no
\* tags, a repeated tag, an unknown tag
ValidateItems ==
  {Item(1, 1), Item(NoSuchIngredient, 1), Item(1, 0)}
ValidatePayloads ==
  {Payload(tags, ingredients, 1) :
     tags \in {<<>>, <<1>>, <<1, 1>>, <<NoSuchTag>>},
     ingredients \in SeqUpTo(ValidateItems, MaxLines)}

NextValidate ==
  \/ \E data \in ValidatePayloads : next_recipe_id = 1 /\ create(1, data)
  \/ \E data \in ValidatePayloads, user \in Users : update(user, 1, data)

SpecValidate == Init /\ [][NextValidate]_vars

\* The shopping cart over recipes with one or two ingredient rows
CartPayloads ==
  {Payload(<<1>>, ingredients, 1) :
     ingredients \in
       {<<Item(id, amount)>> : id \in DOMAIN Ingredient,
                                amount \in 1..MaxAmount}
       \cup {<<Item(1, a), Item(2, b)>> : a, b \in 1..MaxAmount}}

NextCart ==
  \/ \E data \in CartPayloads : create(1, data)
  \/ \E user \in Users, pk \in RecipeIds :
       \/ add_to_shopping_cart(user, pk)
       \/ delete_from_shopping_cart(user, pk)
  \/ \E user \in Users : download_shopping_cart(user)

SpecCart == Init /\ [][NextCart]_vars

\* Concurrent adds and removes on one recipe and between the two users,
\* after a recipe was created and, in some behaviours, user 1 subscribed to
\* user 2 before the first of the concurrent requests
NextRace ==
  \/ next_recipe_id = 1 /\ create(1, SeedPayload)
  \/ (\A n \in 1..NumRequests : requests[n] = Idle) /\ subscribe_create(1, 2)
  \/ \E n \in 1..NumRequests, user \in Users :
       \/ \E rel \in {"favorite", "shopping_cart"} :
            \/ add_is_valid(n, rel, user, 1)
            \/ remove(n, rel, user, 1)
       \/ \E author \in Users :
            \/ add_is_valid(n, "subscribe", user, author)
            \/ remove_get_object_or_404(n, user, author)
  \/ \E n \in 1..NumRequests :
       \/ add_save(n)
       \/ remove_delete(n)

SpecRace == Init /\ [][NextRace]_vars

\* The recipe write path with payloads that differ in their cooking time and
\* carry an amount of 0 or an unknown ingredient id
TimePayloads ==
  {Payload(<<1>>, ingredients, cooking_time) :
     ingredients \in SeqUpTo(ValidateItems, 2),
     cooking_time \in 0..MaxCookingTime}

NextTime ==
  \/ \E data \in TimePayloads : next_recipe_id = 1 /\ create(1, data)
  \/ \E data \in TimePayloads, user \in Users : update(user, 1, data)

SpecTime == Init /\ [][NextTime]_vars

\* The recipe write path by both users, with payloads that carry an author
\* or none
WithAuthor(data, author) ==
  [x \in DOMAIN data \cup {"author"} |->
     IF x = "author" THEN author ELSE data[x]]
AuthorPayloads ==
  LET plain == {Payload(<<1>>, <<Item(1, 1)>>, cooking_time) :
                  cooking_time \in 1..MaxCookingTime}
  IN plain \cup {WithAuthor(data, author) : data \in plain, author \in Users}

NextAuthor ==
  \/ \E user \in Users, data \in AuthorPayloads : create(user, data)
  \/ \E user \in Users, pk \in RecipeIds, data \in AuthorPayloads :
       update(user, pk, data)

SpecAuthor == Init /\ [][NextAuthor]_vars

\* Concurrent recipe writes, with exports between their queries and with
\* reads whose own queries run between them; retrieve is the read that no
\* other request interrupts
RacePayloads ==
  {Payload(<<2>>, <<Item(1, 2)>>, 1),
   Payload(<<1>>, <<Item(2, 1)>>, 1),
   Payload(<<1, 2>>, <<Item(4, 1), Item(1, 1)>>, 1)}

NextWriteRace ==
  \/ next_recipe_id = 1 /\ create(1, SeedPayload)
  \/ \E n \in 1..NumRequests, data \in RacePayloads :
       \/ create_begin(n, 1, data)
       \/ update_begin(n, 1, 1, data)
  \/ \E n \in 1..NumRequests :
       \/ create_objects_create(n)
       \/ update_instance_save(n)
       \/ update_tags_clear(n)
       \/ write_tags_set_old_ids(n)
       \/ write_tags_set(n)
       \/ update_delete(n)
       \/ write_bulk_create(n)
  \/ \E n \in 1..NumRequests, user \in Users, pk \in RecipeIds :
       retrieve_get_object(n, user, pk)
  \/ \E n \in 1..NumRequests :
       \/ retrieve_tags(n)
       \/ retrieve_get_is_favorited(n)
       \/ retrieve_get_ingredients(n)
  \/ \E user \in Users, pk \in RecipeIds : retrieve(user, pk)
  \/ add_to_shopping_cart(1, 1)
  \/ download_shopping_cart(1)

SpecWriteRace == Init /\ [][NextWriteRace]_vars

\* Concurrent updates of one stored recipe
NextUpdateRace ==
  \/ next_recipe_id = 1 /\ create(1, SeedPayload)
  \/ \E n \in 1..NumRequests, data \in RacePayloads :
       update_begin(n, 1, 1, data)
  \/ \E n \in 1..NumRequests :
       \/ update_instance_save(n)
       \/ update_tags_clear(n)
       \/ write_tags_set_old_ids(n)
       \/ write_tags_set(n)
       \/ update_delete(n)
       \/ write_bulk_create(n)

SpecUpdateRace == Init /\ [][NextUpdateRace]_vars

\* Recipes and relations of both users, and their deletion; a deleted user
\* sends no request
NextCascade ==
  \/ \E user \in users : create(user, SeedPayload)
  \/ \E user \in users, pk \in RecipeIds :
       \/ add_to_favorite(user, pk)
       \/ add_to_shopping_cart(user, pk)
       \/ destroy(user, pk)
  \/ \E user \in users, id \in Users : subscribe_create(user, id)
  \/ \E id \in Users : delete_user(id)

SpecCascade == Init /\ [][NextCascade]_vars

\* Tags saved one by one and loaded from files
TagNames == {"breakfast", "lunch"}
TagColors == {"#FF0000", "#00FF00"}
TagSlugs == {<<"a">>, <<"A">>, <<"a", " ", "b">>, <<"a", "-", "b">>}
TagRows ==
  [name : TagNames, color : TagColors, slug : TagSlugs]
TagFiles ==
  SeqUpTo({[name |-> "breakfast", color |-> "#FF0000", slug |-> <<"A">>],
           [name |-> "lunch", color |-> "#00FF00", slug |-> <<"a">>],
           [name |-> "lunch", color |-> "#00FF00",
            slug |-> <<"a", " ", "b">>]}, 2)

NextTags ==
  \/ \E pk \in 0..2, tag \in TagRows : Tag_save(pk, tag)
  \/ \E file \in TagFiles : load_tags(file)

SpecTags == Init /\ [][NextTags]_vars

\* The load commands, each run again and again on the file of its first run
IngredientFiles ==
  SeqUpTo({[name |-> "Salt", measurement_unit |-> "g"],
           [name |-> "Sugar", measurement_unit |-> "g"]}, 2)

\* The command has not run yet, or it ran on this file
SameFile(command, file) ==
  loads[command].runs = 0 \/ loads[command].file = file

NextLoad ==
  \/ \E file \in TagFiles :
       SameFile("load_tags", file) /\ load_tags(file)
  \/ \E file \in IngredientFiles :
       SameFile("load_ingredients", file) /\ load_ingredients(file)

SpecLoad == Init /\ [][NextLoad]_vars

\* The recipe list with its filters, over a recipe of each user, the
\* favorites of both users and the cart of one
FilterParams ==
  {[tags |-> tags_author[1], author |-> tags_author[2],
    is_favorited |-> is_favorited,
    is_in_shopping_cart |-> is_in_shopping_cart] :
     tags_author \in {<<{}, 0>>, <<{2}, 0>>, <<{}, 1>>},
     is_favorited \in {"None", "True", "False"},
     is_in_shopping_cart \in {"None", "True", "False"}}

NextFilter ==
  \/ next_recipe_id = 1 /\ create(1, SeedPayload)
  \/ next_recipe_id = 2 /\ create(2, Payload(<<2>>, <<Item(4, 1)>>, 1))
  \/ \E user \in Users, pk \in RecipeIds : add_to_favorite(user, pk)
  \/ \E pk \in RecipeIds : add_to_shopping_cart(1, pk)
  \/ \E user \in Users \cup {Anonymous}, params \in FilterParams :
       list(user, params)

SpecFilter == Init /\ [][NextFilter]_vars

\* The subscriptions listing over the recipes and subscriptions of both
\* users, with recipes_limit absent, empty, a number (also written with
\* whitespace around it, a plus sign or an underscore between its digits),
\* negative and no number
LimitValues ==
  {<<>>, <<"0">>, <<"1">>, <<"2">>, <<"1", "0">>, <<"-", "1">>, <<"a">>,
   <<" ", "1">>, <<"1", " ">>, <<"+", "1">>, <<"1", "_", "0">>,
   <<" ">>, <<"1", "_">>, <<"-", " ", "1">>}
QueryDicts == {{}} \cup {{<<"recipes_limit", value>>} : value \in LimitValues}

NextSubscriptions ==
  \/ \E user \in Users : create(user, SeedPayload)
  \/ \E user \in Users, id \in Users :
       \/ subscribe_create(user, id)
       \/ subscribe_delete(user, id)
  \/ \E user \in Users, GET \in QueryDicts :
       UserProfileViewSet_subscriptions(user, GET)

SpecSubscriptions == Init /\ [][NextSubscriptions]_vars

\* The ingredient list over loaded ingredients, with prefixes in both cases,
\* with whitespace around them, longer than a name and from inside a name
Salt == <<"S", "a", "l", "t">>
Sauce == <<"S", "a", "u", "c", "e">>
Mustard == <<"M", "u", "s", "t", "a", "r", "d">>
NamedFiles ==
  SeqUpTo({[name |-> name, measurement_unit |-> "g"] :
             name \in {Salt, Sauce, Mustard}}, 2)
NamePrefixes ==
  {<<>>, <<"S", "a">>, <<"s", "A">>, <<"m">>, <<"S", "a", "l">>,
   <<"S", "a", " ">>, <<" ", "S", "a">>, <<" ">>, <<"a">>,
   Salt \o <<"y">>}

NextIngredients ==
  \/ \E file \in NamedFiles : load_ingredients(file)
  \/ \E name \in NamePrefixes : IngredientViewSet_list(name)

SpecIngredients == Init /\ [][NextIngredients]_vars

\* Partial updates of one stored recipe, with every subset of the fields
\* tags, ingredients and cooking_time in the payload
PatchPayloads ==
  {[x \in fields |-> data[x]] :
     fields \in SUBSET {"tags", "ingredients", "cooking_time"},
     data \in {Payload(tags, ingredients, cooking_time) :
                 tags \in {<<2>>, <<1, 1>>},
                 ingredients \in {<<Item(4, 2)>>,
                                  <<Item(NoSuchIngredient, 1)>>},
                 cooking_time \in {0, MaxCookingTime}}}

NextPatch ==
  \/ next_recipe_id = 1 /\ create(1, SeedPayload)
  \/ \E user \in Users, data \in PatchPayloads : partial_update(user, 1, data)

SpecPatch == Init /\ [][NextPatch]_vars

\* Two recipes, their update, the favorites and carts of both users, and the
\* reads of both users and of an anonymous user: export, detail and list
SharedPayloads ==
  {Payload(<<2>>, <<Item(2, 2)>>, 1),
   Payload(<<1>>, <<Item(1, 1), Item(4, 1)>>, 1)}
FlagParams ==
  {params \in FilterParams :
     /\ params.tags = {} /\ params.author = 0
     /\ "False" \notin {params.is_favorited, params.is_in_shopping_cart}}

NextShared ==
  \/ next_recipe_id = 1 /\ create(1, SeedPayload)
  \/ \E data \in SharedPayloads : next_recipe_id = 2 /\ create(2, data)
  \/ \E data \in SharedPayloads : update(1, 1, data)
  \/ \E user \in Users, pk \in RecipeIds :
       \/ add_to_favorite(user, pk)
       \/ delete_from_favorite(user, pk)
       \/ add_to_shopping_cart(user, pk)
       \/ delete_from_shopping_cart(user, pk)
  \/ \E user \in Users : download_shopping_cart(user)
  \/ \E user \in Users \cup {Anonymous} :
       \/ \E pk \in RecipeIds : retrieve(user, pk)
       \/ \E params \in FlagParams : list(user, params)

SpecShared == Init /\ [][NextShared]_vars

\* The document of consolidated lists of up to MaxExportLines lines; the
\* lines of one list differ in their names, <<name, i>> being the i-th name
ExportLists ==
  {[i \in 1..n |-> [ingredient__name |-> <<name, i>>,
                    ingredient__measurement_unit |-> "g",
                    amount |-> amount]] :
     n \in 0..MaxExportLines, name \in {"Salt", "Sugar"},
     amount \in 1..MaxAmount}

NextExport ==
  \E user \in Users, ingredients \in ExportLists :
    draw_shopping_cart(user, ingredients)

SpecExport == Init /\ [][NextExport]_vars

\* ------------------------------------------------------------------ claims
\* The ingredient rows of the recipes in the user's cart, as (recipe, index)
CartRows(user) ==
  UNION {{<<pk, i>> : i \in DOMAIN ingredient_list[pk]} :
           pk \in {x \in RecipeIds : Exists(shopping_cart, user, x)}}

RowAt(x) == ingredient_list[x[1]][x[2]]

NameUnit(x) ==
  <<Ingredient[RowAt(x).ingredient].name,
    Ingredient[RowAt(x).ingredient].measurement_unit>>

IsExport == req.op = "download_shopping_cart" /\ "ingredients" \in DOMAIN resp.body

\* C1: the exported list holds exactly one line for each distinct
\* (ingredient name, measurement unit) pair among the ingredient rows of the
\* recipes in the user's cart, and the line's amount is the sum of the amounts
\* of all those rows; the key is the name/unit pair, not the ingredient id.
C1_Consolidation ==
  IsExport =>
    LET out == resp.body.ingredients
        rows == CartRows(req.user)
        key(i) == <<out[i].ingredient__name,
                    out[i].ingredient__measurement_unit>>
    IN /\ \A x \in rows :
            Cardinality({i \in DOMAIN out : key(i) = NameUnit(x)}) = 1
       /\ \A i \in DOMAIN out :
            /\ \E x \in rows : NameUnit(x) = key(i)
            /\ out[i].amount =
                 SumOver({x \in rows : NameUnit(x) = key(i)},
                         [x \in rows |-> RowAt(x).amount])

\* C1 witness: two cart recipes, one with ingredient 1 (Salt, g) amount 1 and
\* one with ingredient 2 (Salt, g) amount 2, exported as one line of amount 3.
C1_Witness ==
  /\ IsExport
  /\ Exists(shopping_cart, req.user, 1) /\ Exists(shopping_cart, req.user, 2)
  /\ ingredient_list[1] = <<[ingredient |-> 1, amount |-> 1]>>
  /\ ingredient_list[2] = <<[ingredient |-> 2, amount |-> 2]>>
  /\ resp.body.ingredients =
       <<[ingredient__name |-> "Salt", ingredient__measurement_unit |-> "g",
          amount |-> 3]>>

\* An add request req' on relation table for a pair the table holds
AddOfExisting(op, table) ==
  req'.op = op /\ Exists(table, req'.user, req'.target)

\* C2: an add request for a (user, target) pair that already exists
\* fails with Conflict and leaves the relation unchanged, for Favorite,
\* ShoppingCart and Subscription.
C2_AddExistingConflict ==
  [][/\ AddOfExisting("add_to_favorite", favorites)
          => resp'.status = Conflict /\ favorites' = favorites
     /\ AddOfExisting("add_to_shopping_cart", shopping_cart)
          => resp'.status = Conflict /\ shopping_cart' = shopping_cart
     /\ AddOfExisting("subscribe", subscriptions)
          => resp'.status = Conflict /\ subscriptions' = subscriptions]_vars

\* C3: a remove request on the favorite or shopping-cart relation for a pair
\* that does not exist fails with NotFound and leaves the relation unchanged.
C3_RemoveAbsentNotFound ==
  [][/\ (req'.op = "delete_from_favorite"
           /\ ~Exists(favorites, req'.user, req'.target))
          => resp'.status = NotFound /\ favorites' = favorites
     /\ (req'.op = "delete_from_shopping_cart"
           /\ ~Exists(shopping_cart, req'.user, req'.target))
          => resp'.status = NotFound /\ shopping_cart' = shopping_cart]_vars

\* C4: an unsubscribe request for a pair with no Subscription fails with
\* NotFound and changes nothing; when the pair exists it deletes exactly that
\* Subscription and returns no content.
C4_Unsubscribe ==
  [][req'.op = "unsubscribe" =>
       IF Exists(subscriptions, req'.user, req'.target)
       THEN /\ resp'.status = HTTP_204_NO_CONTENT
            /\ subscriptions' =
                 [subscriptions EXCEPT ![<<req'.user, req'.target>>] = 0]
            /\ UNCHANGED <<recipes, next_recipe_id, ingredient_list,
                           favorites, shopping_cart>>
       ELSE /\ resp'.status = NotFound
            /\ UNCHANGED db]_vars

\* C4 witness: an unsubscribe that deleted its pair while the other
\* subscription stays.
C4_Witness ==
  /\ req.op = "unsubscribe"
  /\ resp.status = HTTP_204_NO_CONTENT
  /\ ~Exists(subscriptions, req.user, req.target)
  /\ Exists(subscriptions, req.target, req.user)

\* C5: a subscribe request whose user is the target author fails with
\* ValidationError whatever subscriptions exist and creates no row; no
\* Subscription ever has subscriber = author.
C5_NoSelfSubscription ==
  /\ [][(req'.op = "subscribe" /\ req'.user = req'.target)
          => resp'.status = ValidationError /\ UNCHANGED db]_vars
  /\ [](\A user \in Users : ~Exists(subscriptions, user, user))

\* C5 witness: a refused subscription to oneself while the user is subscribed
\* to the other user.
C5_Witness ==
  /\ req.op = "subscribe" /\ req.user = req.target
  /\ resp.status = ValidationError
  /\ \E author \in Users : Exists(subscriptions, req.user, author)

\* The requests of the race that add / remove the pair (user, target) of rel
Adds(rel, user, target) ==
  {n \in DOMAIN requests :
     /\ requests[n].op = "add" /\ requests[n].rel = rel
     /\ requests[n].user = user /\ requests[n].target = target}
Removes(rel, user, target) ==
  {n \in DOMAIN requests :
     /\ requests[n].op = "remove" /\ requests[n].rel = rel
     /\ requests[n].user = user /\ requests[n].target = target}

\* C6: after any interleaving of add and remove requests each relation holds
\* at most one row per pair, and of the adds that race for one absent pair
\* (all past their existence check, no remove of the pair among the requests)
\* exactly one inserts and the others are rejected.
C6_UniqueUnderRaces ==
  /\ \A p \in DOMAIN favorites : favorites[p] <= 1
  /\ \A p \in DOMAIN shopping_cart : shopping_cart[p] <= 1
  /\ \A p \in DOMAIN subscriptions : subscriptions[p] <= 1
  /\ \A rel \in Relations, user \in Users, target \in Users \cup RecipeIds :
       LET adds == Adds(rel, user, target) IN
       (/\ Cardinality(adds) >= 2
        /\ Removes(rel, user, target) = {}
        /\ \A n \in adds :
             /\ requests[n].pc = "done"
             /\ requests[n].status \in {HTTP_201_CREATED, IntegrityError})
       => Cardinality({n \in adds :
                         requests[n].status = HTTP_201_CREATED}) = 1

\* C6 witness: two finished adds of one favorite pair that both passed the
\* existence check: one inserted, the database refused the other.
C6_Witness ==
  \E n, m \in DOMAIN requests :
    /\ requests[n].op = "add" /\ requests[m].op = "add"
    /\ requests[n].rel = "favorite" /\ requests[m].rel = "favorite"
    /\ requests[n].user = requests[m].user
    /\ requests[n].target = requests[m].target
    /\ requests[n].status = HTTP_201_CREATED
    /\ requests[m].status = IntegrityError

\* The (ingredient id, amount) pairs of a payload's ingredient list
PayloadLines(data) ==
  {<<data.ingredients[i].id, data.ingredients[i].amount>> :
     i \in DOMAIN data.ingredients}

\* What reading recipe pk back returns now
ReadBack(user, pk) ==
  RecipeReadSerializer(user, pk, recipes[pk], ingredient_list[pk])

ReadLines(user, pk) ==
  {<<x.id, x.amount>> : x \in Range(ReadBack(user, pk).ingredients)}

\* C7: after a recipe is updated with a new ingredient list, reading it back
\* returns exactly the new (ingredient id, amount) lines, whatever the length
\* of the old list: no old line stays and every new line is there.
C7_UpdateReplacesLines ==
  (req.op = "update" /\ resp.status = HTTP_200_OK) =>
    /\ ReadLines(req.user, req.target) = PayloadLines(req.payload)
    /\ Len(ReadBack(req.user, req.target).ingredients)
         = Len(req.payload.ingredients)
    /\ ReadLines(req.user, req.target)
         = {<<x.id, x.amount>> : x \in Range(resp.body.ingredients)}

\* C7 witness: an update to the single line (4, 2) has been applied.
C7_Witness ==
  /\ req.op = "update" /\ resp.status = HTTP_200_OK
  /\ req.payload.ingredients = <<Item(4, 2)>>
  /\ ingredient_list[req.target] = <<[ingredient |-> 4, amount |-> 2]>>

\* C8: creating a recipe from a valid payload and reading it back yields the
\* tag set and the (ingredient id, amount) line set of the payload.
C8_CreateReadBack ==
  (req.op = "create" /\ resp.status = HTTP_201_CREATED) =>
    /\ ReadBack(req.user, req.target).tags = Range(req.payload.tags)
    /\ ReadLines(req.user, req.target) = PayloadLines(req.payload)
    /\ Len(ReadBack(req.user, req.target).ingredients)
         = Len(req.payload.ingredients)
    /\ resp.body = ReadBack(req.user, req.target)

\* C8 witness: a recipe created with two tags and two lines of different
\* amounts.
C8_Witness ==
  /\ req.op = "create" /\ resp.status = HTTP_201_CREATED
  /\ req.payload.tags = <<2, 1>>
  /\ req.payload.ingredients = <<Item(4, 1), Item(1, 2)>>

IsWrite(r) == r.op \in {"create", "update"}

\* The write request r gets as far as its serializer: a create always, an
\* update of an existing recipe by its author or by an administrator.
ReachesSerializer(r) ==
  \/ r.op = "create"
  \/ /\ r.op = "update"
     /\ RecipeExists(r.target)
     /\ (recipes[r.target].author = r.user \/ r.user \in Admins)

Repeats(s) == \E i, j \in DOMAIN s : i # j /\ s[i] = s[j]
Ids(ingredients) == [i \in DOMAIN ingredients |-> ingredients[i].id]

\* The payload has an empty or repeating tag list or ingredient list
BadLists(data) ==
  \/ Len(data.tags) = 0 \/ Repeats(data.tags)
  \/ Len(data.ingredients) = 0 \/ Repeats(Ids(data.ingredients))

HasUnknownIngredient(data) ==
  \E i \in DOMAIN data.ingredients :
    data.ingredients[i].id \notin DOMAIN Ingredient

\* The ingredient list is not empty, every amount is at least 1, and an
\* unknown ingredient id stands in it before any repeated id
UnknownIngredientFirst(data) ==
  /\ Len(data.ingredients) > 0
  /\ \A i \in DOMAIN data.ingredients : data.ingredients[i].amount >= 1
  /\ \E i \in DOMAIN data.ingredients :
       /\ data.ingredients[i].id \notin DOMAIN Ingredient
       /\ \A j, k \in 1..(i - 1) :
            j # k => data.ingredients[j].id # data.ingredients[k].id

ExpectedFailure(data) ==
  IF UnknownIngredientFirst(data) THEN NotFound ELSE ValidationError

NoRepeatedLine ==
  \A pk \in RecipeIds :
    ~Repeats([i \in DOMAIN ingredient_list[pk] |->
                ingredient_list[pk][i].ingredient])

\* C9 as stated: a recipe create or update whose tag list is empty or repeats
\* a tag id, or whose ingredient list is empty or repeats an ingredient id,
\* fails with ValidationError; no recipe has two lines for one ingredient.
C9_BadListsValidationError ==
  /\ (IsWrite(req) /\ ReachesSerializer(req) /\ BadLists(req.payload))
       => resp.status = ValidationError
  /\ NoRepeatedLine

\* C9 as amended: such a request is rejected, with ValidationError, except
\* with NotFound when its ingredient list is not empty, has every amount at
\* least 1 and names an unknown ingredient id before any repeated id; no
\* recipe has two lines for one ingredient (the tags of a recipe are a set).
C9_BadListsRejected ==
  /\ (IsWrite(req) /\ ReachesSerializer(req) /\ BadLists(req.payload))
       => resp.status = ExpectedFailure(req.payload)
  /\ NoRepeatedLine

\* C9 witness: an update of an existing recipe by its author with a repeated
\* ingredient id, refused with ValidationError.
C9_Witness ==
  /\ req.op = "update" /\ ReachesSerializer(req)
  /\ req.payload.tags = <<1>>
  /\ req.payload.ingredients = <<Item(1, 1), Item(1, 1)>>
  /\ resp.status = ValidationError

\* C10 as stated: a recipe create or update that references an ingredient id
\* with no Ingredient record fails with NotFound and persists nothing.
C10_UnknownIngredientNotFound ==
  [][(IsWrite(req') /\ ReachesSerializer(req')
        /\ HasUnknownIngredient(req'.payload))
       => resp'.status = NotFound /\ UNCHANGED db]_vars

\* C10 as amended: such a request persists nothing and fails with NotFound
\* when its ingredient list is not empty, has every amount at least 1 and
\* names the unknown id before any repeated id, and with ValidationError
\* otherwise.
C10_UnknownIngredientRejected ==
  [][(IsWrite(req') /\ ReachesSerializer(req')
        /\ HasUnknownIngredient(req'.payload))
       => resp'.status = ExpectedFailure(req'.payload) /\ UNCHANGED db]_vars

\* C10 witness: a create with a known and then an unknown ingredient id,
\* answered with NotFound, and no recipe stored.
C10_Witness ==
  /\ req.op = "create"
  /\ req.payload.tags = <<1>>
  /\ req.payload.ingredients = <<Item(1, 1), Item(NoSuchIngredient, 1)>>
  /\ resp.status = NotFound
  /\ \A pk \in RecipeIds : ~RecipeExists(pk)

\* The payload has an ingredient amount below 1 or a cooking time below 1
BelowOne(data) ==
  \/ \E i \in DOMAIN data.ingredients : data.ingredients[i].amount < 1
  \/ data.cooking_time < 1

\* Every stored ingredient line has amount >= 1 and every stored recipe has
\* cooking_time >= 1
StoredAtLeastOne ==
  \A pk \in RecipeIds :
    /\ \A i \in DOMAIN ingredient_list[pk] : ingredient_list[pk][i].amount >= 1
    /\ RecipeExists(pk) => recipes[pk].cooking_time >= 1

\* C11 as stated: a recipe write with an ingredient amount below 1 or a
\* cooking_time below 1 fails with ValidationError; every stored ingredient
\* line has amount >= 1 and every stored recipe has cooking_time >= 1.
C11_BelowOneValidationError ==
  /\ (IsWrite(req) /\ ReachesSerializer(req) /\ BelowOne(req.payload))
       => resp.status = ValidationError
  /\ StoredAtLeastOne

\* C11 as amended: such a write is rejected, with ValidationError, except
\* with NotFound when every amount is at least 1 (so the cooking time is
\* below 1) and the ingredient list names an unknown ingredient id before any
\* repeated id; every stored ingredient line has amount >= 1 and every
\* stored recipe has cooking_time >= 1.
C11_BelowOneRejected ==
  /\ (IsWrite(req) /\ ReachesSerializer(req) /\ BelowOne(req.payload))
       => resp.status = ExpectedFailure(req.payload)
  /\ StoredAtLeastOne

\* C11 witness: an update of a stored recipe by its author with a cooking
\* time of 0 and valid lists, refused with ValidationError, the stored
\* recipe keeping its cooking time.
C11_Witness ==
  /\ req.op = "update" /\ ReachesSerializer(req)
  /\ req.payload.cooking_time = 0
  /\ req.payload.ingredients = <<Item(1, 1)>>
  /\ resp.status = ValidationError
  /\ recipes[req.target].cooking_time >= 1

\* The user has no ShoppingCart row
EmptyCart(user) == \A pk \in RecipeIds : ~Exists(shopping_cart, user, pk)

\* The response is the export document
IsDocument(r) ==
  /\ "content_type" \in DOMAIN r.body
  /\ r.body.content_type = "application/pdf"

\* C12: download_shopping_cart answers a user whose cart is empty with the
\* empty-cart error body and no export document, and a user whose cart holds
\* at least one recipe with the document.
C12_EmptyCartSignal ==
  req.op = "download_shopping_cart" =>
    IF EmptyCart(req.user)
    THEN resp.body = EmptyCartBody /\ ~IsDocument(resp)
    ELSE IsDocument(resp) /\ resp.body # EmptyCartBody

\* C12 witness: a download by a user with an empty cart, answered with the
\* error body, while the other user's cart holds a recipe.
C12_Witness ==
  /\ req.op = "download_shopping_cart"
  /\ EmptyCart(req.user)
  /\ \E other \in Users \ {req.user} : ~EmptyCart(other)
  /\ resp.body = EmptyCartBody

\* C13: a recipe's author is the user who created it and no update request,
\* by the author or by an administrator and whatever author the payload
\* carries, changes it.
C13_AuthorImmutable ==
  [][/\ (req'.op = "create" /\ resp'.status = HTTP_201_CREATED)
          => recipes'[req'.target].author = req'.user
     /\ \A pk \in RecipeIds :
          RecipeExists(pk) => recipes'[pk].author = recipes[pk].author]_vars

\* C13 witness: an update by an administrator who is not the author, with a
\* payload naming the administrator as author, accepted and stored, the
\* author still being the creator.
C13_Witness ==
  /\ req.op = "update" /\ resp.status = HTTP_200_OK
  /\ "author" \in DOMAIN req.payload
  /\ req.payload.author = req.user
  /\ recipes[req.target].author # req.user
  /\ recipes[req.target].cooking_time = req.payload.cooking_time

\* C14: ingredient lines are unique per (recipe, ingredient) in every
\* reachable state, also after concurrent updates of one recipe that each
\* delete its lines and then bulk-insert their own.
C14_LinesUniqueUnderRaces ==
  \A pk \in RecipeIds :
    \A i, j \in DOMAIN ingredient_list[pk] :
      i # j => ingredient_list[pk][i].ingredient
                 # ingredient_list[pk][j].ingredient

\* The payloads written under SpecWriteRace
WrittenPayloads == RacePayloads \cup {SeedPayload}

\* The (ingredient id, amount) lines of a serialized recipe
BodyLines(body) == {<<x.id, x.amount>> : x \in Range(body.ingredients)}

\* C15: tags and ingredient lines are created and replaced atomically with
\* the recipe write: a read that runs concurrently with a recipe create or
\* update returns a recipe whose tag set and ingredient lines are those of
\* one written payload, never empty and never a mixture of two payloads, and
\* an export of a cart that holds the recipe is not empty.
C15_AtomicWrites ==
  /\ (req.op = "retrieve" /\ resp.status = HTTP_200_OK)
       => \E data \in WrittenPayloads :
            /\ resp.body.tags = Range(data.tags)
            /\ BodyLines(resp.body) = PayloadLines(data)
  /\ IsExport => resp.body.ingredients # <<>>

\* C16: deleting a recipe deletes its ingredient lines and the Favourite and
\* ShoppingCart rows that refer to it, and deleting a user deletes the
\* Favourite, ShoppingCart and Subscription rows the user is an endpoint of;
\* so no ingredient line, Favourite, ShoppingCart or Subscription row refers
\* to a recipe or a user that does not exist.
C16_NoDanglingRows ==
  /\ \A pk \in RecipeIds : ingredient_list[pk] # <<>> => RecipeExists(pk)
  /\ \A user \in Users, pk \in RecipeIds :
       (Exists(favorites, user, pk) \/ Exists(shopping_cart, user, pk))
         => user \in users /\ RecipeExists(pk)
  /\ \A user, author \in Users :
       Exists(subscriptions, user, author)
         => user \in users /\ author \in users

\* C16 witness: a user has been deleted while the other user, who still
\* holds a favorite and a cart row on an own recipe, lost the subscription
\* to the deleted one and the rows on the deleted user's recipe.
C16_Witness ==
  /\ req.op = "delete_user" /\ resp.status = HTTP_204_NO_CONTENT
  /\ req.target \notin users
  /\ \E other \in users, pk \in RecipeIds :
       /\ RecipeExists(pk) /\ recipes[pk].author = other
       /\ Exists(favorites, other, pk) /\ Exists(shopping_cart, other, pk)
  /\ \E pk \in RecipeIds : pk < next_recipe_id /\ ~RecipeExists(pk)

\* Every stored tag has a normalized slug that no other stored tag has
NormalizedUniqueSlugs ==
  \A i \in DOMAIN tag_table :
    /\ tag_table[i].slug = slugify(tag_table[i].slug)
    /\ \A j \in DOMAIN tag_table :
         i # j => slugify(tag_table[i].slug) # slugify(tag_table[j].slug)

\* A save normalizes the slug and is rejected when a different record has
\* the normalized slug; the save of a stored tag as it is succeeds
SaveNormalizes ==
  req'.op = "Tag.save" =>
    LET pk == req'.target
        slug == slugify(req'.payload.slug)
        taken == \E i \in DOMAIN tag_table :
                   i # pk /\ slugify(tag_table[i].slug) = slug
    IN /\ taken => resp'.status = SlugTaken /\ UNCHANGED tag_table
       /\ resp'.status = HTTP_200_OK =>
            tag_table'[IF pk = 0 THEN Len(tag_table') ELSE pk].slug = slug
       /\ (pk \in DOMAIN tag_table /\ req'.payload = tag_table[pk])
            => resp'.status = HTTP_200_OK

\* C17: every tag that enters the store, by Tag.save or by the load_tags
\* bulk load, has a normalized slug that no other tag has; a save normalizes
\* the slug and is rejected when a different record has it, and the save of
\* a stored tag under its own slug succeeds.
C17_NormalizedUniqueSlugs ==
  /\ [][SaveNormalizes]_vars
  /\ []NormalizedUniqueSlugs

\* The runs of a load command so far, and the rows of its file
Runs(command) == loads[command].runs
FileRows(command) == Len(loads[command].file)

\* C18 as stated: after n runs of a load command on the same file of k rows
\* the catalog holds n * k rows, for the ingredient catalog and for the tag
\* catalog.
C18_ReloadDuplicates ==
  /\ Len(ingredient_table)
       = Runs("load_ingredients") * FileRows("load_ingredients")
  /\ Len(tag_table) = Runs("load_tags") * FileRows("load_tags")

\* C18 as amended: the ingredient catalog holds n * k rows; the tag catalog
\* holds the k rows of the file after any number of runs when no two rows of
\* the file agree in name, color or slug, every run after the first being
\* refused with IntegrityError, and no row when two rows of the file agree in
\* one of them, every run being refused.
C18_ReloadIngredientsOnly ==
  /\ Len(ingredient_table)
       = Runs("load_ingredients") * FileRows("load_ingredients")
  /\ Len(tag_table) =
       IF Runs("load_tags") >= 1 /\ TagUnique(loads["load_tags"].file)
       THEN FileRows("load_tags")
       ELSE 0
  /\ (/\ req.op = "load_tags"
      /\ \/ Runs("load_tags") >= 2 /\ FileRows("load_tags") >= 1
         \/ ~TagUnique(loads["load_tags"].file))
       => resp.status = IntegrityError

\* C18 witness: both commands have run twice on a file of two rows; the
\* ingredient catalog holds four rows, the tag catalog two, and the second
\* run of load_tags was refused.
C18_Witness ==
  /\ Runs("load_ingredients") = 2 /\ FileRows("load_ingredients") = 2
  /\ Len(ingredient_table) = 4
  /\ Runs("load_tags") = 2 /\ FileRows("load_tags") = 2
  /\ Len(tag_table) = 2
  /\ req.op = "load_tags" /\ resp.status = IntegrityError

\* The recipes that pass the tags and author parameters
PassesTagsAuthor(pk, params) ==
  /\ RecipeExists(pk)
  /\ params.tags # {} => recipes[pk].tags \cap params.tags # {}
  /\ params.author # 0 => recipes[pk].author = params.author

\* C19: is_favorited and is_in_shopping_cart act only for an authenticated
\* user and the value true, and then keep exactly the recipes the user has a
\* Favourite (ShoppingCart) row for, each once; for an anonymous user or the
\* value false the list is as without the parameter.
C19_FlagFilters ==
  req.op = "list" =>
    LET user == req.user
        params == req.payload
    IN \A pk \in RecipeIds :
         resp.body.results[pk] =
           IF /\ PassesTagsAuthor(pk, params)
              /\ (params.is_favorited = "True" /\ user # Anonymous)
                   => Exists(favorites, user, pk)
              /\ (params.is_in_shopping_cart = "True" /\ user # Anonymous)
                   => Exists(shopping_cart, user, pk)
           THEN 1 ELSE 0

\* C19 witness: a user with a favorite on one of two recipes lists with
\* is_favorited false and gets both recipes.
C19_Witness ==
  /\ req.op = "list" /\ req.user \in Users
  /\ req.payload.is_favorited = "False"
  /\ req.payload.is_in_shopping_cart = "None"
  /\ req.payload.tags = {} /\ req.payload.author = 0
  /\ Exists(favorites, req.user, 1) /\ ~Exists(favorites, req.user, 2)
  /\ \A pk \in RecipeIds : resp.body.results[pk] = 1

\* The number a recipes_limit of the listing's requests stands for
LimitNumber(value) ==
  CASE value = <<"0">> -> 0
    [] value = <<"1">> -> 1
    [] value = <<"2">> -> 2
    [] value = <<"1", "0">> -> 10
    [] value \in {<<" ", "1">>, <<"1", " ">>, <<"+", "1">>} -> 1
    [] value = <<"1", "_", "0">> -> 10
    [] OTHER -> 0 - 1

\* The recipes of the author
RecipesOf(author) ==
  {pk \in RecipeIds : RecipeExists(pk) /\ recipes[pk].author = author}

\* C20: in the subscriptions listing each author's embedded recipe list has
\* at most recipes_limit entries when recipes_limit is given, all of the
\* author's recipes when it is absent, and recipes_count is the author's
\* total number of recipes whatever recipes_limit is.
C20_RecipesLimit ==
  (req.op = "subscriptions" /\ resp.status = HTTP_200_OK) =>
    \A author \in DOMAIN resp.body.results :
      LET entry == resp.body.results[author]
          listed == {entry.recipes[i].id : i \in DOMAIN entry.recipes}
          limits == {p[2] : p \in req.payload} \ {<<>>}
      IN /\ entry.recipes_count = Cardinality(RecipesOf(author))
         /\ listed \subseteq RecipesOf(author)
         /\ Cardinality(listed) = Len(entry.recipes)
         /\ limits = {} => listed = RecipesOf(author)
         /\ \A limit \in limits :
              /\ Len(entry.recipes) <= LimitNumber(limit)
              /\ Len(entry.recipes) < LimitNumber(limit)
                   => listed = RecipesOf(author)

\* C20 witness: a listing with recipes_limit 1 for a subscriber of an author
\* of two recipes: one recipe embedded, recipes_count 2.
C20_Witness ==
  /\ req.op = "subscriptions" /\ resp.status = HTTP_200_OK
  /\ req.payload = {<<"recipes_limit", <<"1">> >>}
  /\ \E author \in DOMAIN resp.body.results :
       /\ Len(resp.body.results[author].recipes) = 1
       /\ resp.body.results[author].recipes_count = 2

\* The name begins with the prefix when both are folded to one case
BeginsWith(name, prefix) ==
  \E rest \in 0..Len(name) :
    /\ Len(name) = Len(prefix) + rest
    /\ \A i \in DOMAIN prefix : lower(name[i]) = lower(prefix[i])

\* The primary keys of the ingredients in the response
ResultIds == {row.id : row \in resp.body.results}

\* The prefix is the value without the whitespace around it
IsStripped(prefix, value) ==
  \E i \in 1..(Len(value) + 1), j \in 0..Len(value) :
    /\ prefix = SubSeq(value, i, j)
    /\ \A k \in DOMAIN value : (k < i \/ k > j) => value[k] \in Whitespace
    /\ prefix # <<>> =>
         prefix[1] \notin Whitespace /\ prefix[Len(prefix)] \notin Whitespace

\* C21 as stated: the ingredient name filter returns exactly the ingredients
\* whose name starts with the given prefix, compared case-insensitively.
C21_PrefixFilter ==
  req.op = "ingredients" =>
    ResultIds = {pk \in DOMAIN ingredient_table :
                   BeginsWith(ingredient_table[pk].name, req.payload)}

\* C21 amended: the ingredient name filter returns exactly the ingredients
\* whose name starts with the given prefix without the whitespace around it,
\* compared case-insensitively, each ingredient with its own name and unit.
C21_StrippedPrefixFilter ==
  req.op = "ingredients" =>
    /\ \A prefix \in {SubSeq(req.payload, i, j) :
                        i \in 1..(Len(req.payload) + 1),
                        j \in 0..Len(req.payload)} :
         IsStripped(prefix, req.payload) =>
           ResultIds = {pk \in DOMAIN ingredient_table :
                          BeginsWith(ingredient_table[pk].name, prefix)}
    /\ \A row \in resp.body.results :
         /\ row.name = ingredient_table[row.id].name
         /\ row.measurement_unit = ingredient_table[row.id].measurement_unit

\* C21 witness: with Salt, Sauce and Mustard loaded, the prefix sA returns
\* Salt and Sauce and not Mustard.
C21_Witness ==
  /\ req.op = "ingredients" /\ req.payload = <<"s", "A">>
  /\ {Salt, Sauce, Mustard} \subseteq
       {ingredient_table[pk].name : pk \in DOMAIN ingredient_table}
  /\ {row.name : row \in resp.body.results} = {Salt, Sauce}

\* C22: a recipe create or update request that is rejected with a
\* ValidationError or NotFound leaves the store unchanged: no Recipe row is
\* created, and the fields, tag set and ingredient lines of every recipe are
\* as before the request.
C22_RejectedWriteUnchanged ==
  [][(IsWrite(req') /\ resp'.status \in {ValidationError, NotFound})
       => /\ recipes' = recipes
          /\ next_recipe_id' = next_recipe_id
          /\ ingredient_list' = ingredient_list
          /\ <<favorites, shopping_cart, subscriptions>>' =
               <<favorites, shopping_cart, subscriptions>>]_vars

\* C22 witness: an update of a stored recipe with other lines than it has,
\* rejected, the recipe still holding its tags and lines.
C22_Witness ==
  /\ req.op = "update" /\ resp.status \in {ValidationError, NotFound}
  /\ RecipeExists(req.target)
  /\ ingredient_list[req.target] # <<>>
  /\ Len(req.payload.ingredients) # Len(ingredient_list[req.target])
  /\ recipes[req.target].tags # Range(req.payload.tags)

\* C23: a partial update of a recipe whose payload omits tags or ingredients
\* does not end in an unhandled error and leaves the omitted tag set and
\* ingredient lines as they were; when it is applied, the supplied
\* cooking_time is stored.
C23_PartialUpdateKeepsLists ==
  [][(/\ req'.op = "partial_update"
      /\ {"tags", "ingredients"} \ DOMAIN req'.payload # {}
      /\ RecipeExists(req'.target))
       => /\ resp'.status # UnhandledException
          /\ "tags" \notin DOMAIN req'.payload
               => recipes'[req'.target].tags = recipes[req'.target].tags
          /\ "ingredients" \notin DOMAIN req'.payload
               => ingredient_list'[req'.target] = ingredient_list[req'.target]
          /\ (resp'.status = HTTP_200_OK
              /\ "cooking_time" \in DOMAIN req'.payload)
               => recipes'[req'.target].cooking_time =
                    req'.payload.cooking_time]_vars

\* The user's own ShoppingCart rows
OwnCart(user) == [pk \in RecipeIds |-> shopping_cart[<<user, pk>>]]

\* The lines of the recipes in the user's cart
OwnCartLines(user) ==
  [pk \in RecipeIds |->
     IF Exists(shopping_cart, user, pk) THEN ingredient_list[pk] ELSE <<>>]

\* The consolidated list of the user as the set of its lines: each group of
\* the export's query with its sum
Consolidated(cart, lists, user) ==
  {<<group, Sum(cart, lists, user, group)>> :
     group \in groups(cart, lists, user)}

\* A step leaves the consolidated list of every user whose own cart and cart
\* recipes it leaves alone as it was
OwnCartOnly ==
  \A user \in Users :
    (OwnCart(user)' = OwnCart(user) /\ OwnCartLines(user)' = OwnCartLines(user))
      => Consolidated(shopping_cart', ingredient_list', user) =
           Consolidated(shopping_cart, ingredient_list, user)

\* In an export every line of a cart recipe is counted once
CountedOnce ==
  IsExport =>
    \A i \in DOMAIN resp.body.ingredients :
      LET line == resp.body.ingredients[i]
          rows == {x \in CartRows(req.user) :
                     NameUnit(x) = <<line.ingredient__name,
                                     line.ingredient__measurement_unit>>}
      IN line.amount = SumOver(rows, [x \in rows |-> RowAt(x).amount])

\* C24: the consolidated shopping list of a user depends only on the user's
\* own cart and the contents of the recipes in it: a line of a recipe that is
\* also in other users' carts is counted once, and adds and removes on
\* another user's cart or favorites do not change the user's list.
C24_OwnCartOnly == [][OwnCartOnly]_vars /\ []CountedOnce

\* C24 witness: an export for user 1 of a recipe that is in the carts of both
\* users and in the favorites of user 2, its line counted once.
C24_Witness ==
  /\ IsExport /\ req.user = 1
  /\ OwnCart(1) = [pk \in RecipeIds |-> IF pk = 1 THEN 1 ELSE 0]
  /\ Exists(shopping_cart, 2, 1) /\ Exists(favorites, 2, 1)
  /\ ingredient_list[1] = <<[ingredient |-> 1, amount |-> 1]>>
  /\ Len(resp.body.ingredients) = 1
  /\ resp.body.ingredients[1].amount = 1

\* The relation an add or remove request works on ("none": another request)
RelationOf(op) ==
  CASE op \in {"add_to_favorite", "delete_from_favorite"} -> "favorite"
    [] op \in {"add_to_shopping_cart", "delete_from_shopping_cart"}
         -> "shopping_cart"
    [] op \in {"subscribe", "unsubscribe"} -> "subscribe"
    [] OTHER -> "none"

\* The rows of the table other than those of the pair
Others(table, user, target) ==
  [p \in DOMAIN table \ {<<user, target>>} |-> table[p]]

\* C25: a favorite, shopping-cart or subscribe add or remove for the pair
\* (u, t) changes at most the membership of (u, t) in that one relation:
\* every other pair of the relation, the other two relations and all
\* recipes, tags and ingredient lines are unchanged.
C25_ToggleFrame ==
  [][RelationOf(req'.op) # "none" =>
       /\ Others(favorites', req'.user, req'.target) =
            Others(favorites, req'.user, req'.target)
       /\ Others(shopping_cart', req'.user, req'.target) =
            Others(shopping_cart, req'.user, req'.target)
       /\ Others(subscriptions', req'.user, req'.target) =
            Others(subscriptions, req'.user, req'.target)
       /\ RelationOf(req'.op) # "favorite" => favorites' = favorites
       /\ RelationOf(req'.op) # "shopping_cart"
            => shopping_cart' = shopping_cart
       /\ RelationOf(req'.op) # "subscribe" => subscriptions' = subscriptions
       /\ UNCHANGED <<recipes, next_recipe_id, ingredient_list>>]_vars

\* C25 witness: a remove that deleted its favorite pair while the favorite
\* of the other user, the cart row of the same pair and a subscription stay.
C25_Witness ==
  /\ req.op = "delete_from_favorite" /\ resp.status = HTTP_204_NO_CONTENT
  /\ RecipeExists(req.target)
  /\ ~Exists(favorites, req.user, req.target)
  /\ \E other \in Users \ {req.user} : Exists(favorites, other, req.target)
  /\ Exists(shopping_cart, req.user, req.target)
  /\ \E author \in Users : Exists(subscriptions, req.user, author)

\* The request r adds / removes a pair of relation rel
IsAdd(r, rel) ==
  r.op \in {"add_to_favorite", "add_to_shopping_cart", "subscribe"}
    /\ RelationOf(r.op) = rel
IsRemove(r, rel) ==
  r.op \in {"delete_from_favorite", "delete_from_shopping_cart",
            "unsubscribe"}
    /\ RelationOf(r.op) = rel

\* The pair can be in the relation: a recipe that exists, or an author that
\* exists and is not the user
Addable(rel, user, target) ==
  IF rel = "subscribe"
  THEN target \in users /\ target # user
  ELSE RecipeExists(target)

\* The step that takes the table of relation rel to table_next keeps the
\* add / remove / add round trip of its request req'
RoundTrip(rel, table, table_next) ==
  LET user == req'.user
      target == req'.target
      SamePair == req.user = user /\ req.target = target
  IN
  \* the add of an absent pair succeeds and adds the pair, nothing else
  /\ (/\ IsAdd(req', rel) /\ Addable(rel, user, target)
      /\ ~Exists(table, user, target))
       => /\ resp'.status = HTTP_201_CREATED
          /\ table_next[<<user, target>>] = 1
          /\ [table_next EXCEPT ![<<user, target>>] = 0] = table
  \* the remove that follows the successful add of its pair succeeds and
  \* leaves the relation as it was before the add
  /\ (/\ IsRemove(req', rel) /\ IsAdd(req, rel) /\ SamePair
      /\ resp.status = HTTP_201_CREATED)
       => /\ resp'.status = HTTP_204_NO_CONTENT
          /\ table_next = [table EXCEPT ![<<user, target>>] = 0]
  \* the add that follows that remove succeeds again
  /\ (/\ IsAdd(req', rel) /\ IsRemove(req, rel) /\ SamePair
      /\ resp.status = HTTP_204_NO_CONTENT /\ Addable(rel, user, target))
       => /\ resp'.status = HTTP_201_CREATED
          /\ Exists(table_next, user, target)

\* C26: for each relation, a successful add of an absent pair followed by a
\* remove of the same pair restores the relation to its state before the
\* add, and a subsequent add of that pair succeeds again.
C26_AddRemoveRoundTrip ==
  [][/\ RoundTrip("favorite", favorites, favorites')
     /\ RoundTrip("shopping_cart", shopping_cart, shopping_cart')
     /\ RoundTrip("subscribe", subscriptions, subscriptions')]_vars

\* C26 witness: a subscription removed after its add (an unsubscribe succeeds
\* only for a pair that was added), the relation empty as before the add.
C26_Witness ==
  /\ req.op = "unsubscribe" /\ resp.status = HTTP_204_NO_CONTENT
  /\ ~Exists(subscriptions, req.user, req.target)
  /\ subscriptions = EmptySubscription

\* C27: updating a recipe preserves its identity and its relationships: the
\* recipe keeps its id, and every Favourite and ShoppingCart row that refers
\* to it before the update exists after it, although all of its ingredient
\* lines are deleted and created again.
C27_UpdateKeepsRelations ==
  [][(req'.op = "update" /\ resp'.status = HTTP_200_OK)
       => /\ resp'.body.id = req'.target
          /\ {pk \in RecipeIds : recipes'[pk] # NoRecipe} =
               {pk \in RecipeIds : recipes[pk] # NoRecipe}
          /\ next_recipe_id' = next_recipe_id
          /\ \A user \in Users :
               /\ favorites'[<<user, req'.target>>] =
                    favorites[<<user, req'.target>>]
               /\ shopping_cart'[<<user, req'.target>>] =
                    shopping_cart[<<user, req'.target>>]
          /\ PayloadLines(req'.payload) =
               {<<row.ingredient, row.amount>> :
                  row \in Range(ingredient_list'[req'.target])}]_vars

\* C27 witness: an update that replaced the lines of a recipe that is in the
\* favorites of both users and in the cart of one.
C27_Witness ==
  /\ req.op = "update" /\ resp.status = HTTP_200_OK
  /\ req.payload.ingredients = <<Item(2, 2)>>
  /\ ingredient_list[req.target] = <<[ingredient |-> 2, amount |-> 2]>>
  /\ \A user \in Users : Exists(favorites, user, req.target)
  /\ Exists(shopping_cart, 2, req.target)

\* The flag of the recipe in the read representation built for the user
Flag(name, user, pk) ==
  RecipeReadSerializer(user, pk, recipes[pk], ingredient_list[pk])[name]

\* The recipes of a list response, and each of them once
Listed == {pk \in RecipeIds : resp.body.results[pk] > 0}
ListedOnce == \A pk \in RecipeIds : resp.body.results[pk] <= 1

\* C28: the per-user flags of a recipe's read representation agree with the
\* relation tables and with the list filters: for an authenticated user
\* is_favorited (is_in_shopping_cart) is true exactly when a Favourite
\* (ShoppingCart) row of the user and the recipe exists, and the recipes the
\* filter is_favorited=true (is_in_shopping_cart=true) returns are exactly
\* those with the flag true; for an anonymous user both flags are false.
C28_FlagsAgree ==
  /\ (req.op = "retrieve" /\ resp.status = HTTP_200_OK) =>
       IF req.user \in Users
       THEN /\ resp.body.is_favorited =
                 (favorites[<<req.user, req.target>>] > 0)
            /\ resp.body.is_in_shopping_cart =
                 (shopping_cart[<<req.user, req.target>>] > 0)
       ELSE ~resp.body.is_favorited /\ ~resp.body.is_in_shopping_cart
  /\ (req.op = "list" /\ req.user \in Users) =>
       /\ ListedOnce
       /\ Listed =
            {pk \in RecipeIds :
               /\ RecipeExists(pk)
               /\ req.payload.is_favorited = "True"
                    => Flag("is_favorited", req.user, pk)
               /\ req.payload.is_in_shopping_cart = "True"
                    => Flag("is_in_shopping_cart", req.user, pk)}

\* C28 witness: the detail of a recipe that is a favorite of the other user
\* only, with is_favorited false, next to one's own cart flag true.
C28_Witness ==
  /\ req.op = "retrieve" /\ resp.status = HTTP_200_OK /\ req.user \in Users
  /\ \E other \in Users \ {req.user} : Exists(favorites, other, req.target)
  /\ ~resp.body.is_favorited
  /\ resp.body.is_in_shopping_cart

\* C29: after any sequence of subscribe and unsubscribe requests the
\* subscriptions listing of a user contains exactly the authors for which a
\* Subscription of the user exists, each once, and never the user.
C29_ListingIsSubscriptions ==
  (req.op = "subscriptions" /\ resp.status = HTTP_200_OK) =>
    /\ DOMAIN resp.body.results =
         {author \in Users : subscriptions[<<req.user, author>>] > 0}
    /\ \A author \in DOMAIN resp.body.results :
         /\ resp.body.results[author].id = author
         /\ resp.body.count[author] = 1
    /\ \A author \in Users \ DOMAIN resp.body.results :
         resp.body.count[author] = 0
    /\ req.user \notin DOMAIN resp.body.results

\* C29 witness: the listing of a user with the one author the user is
\* subscribed to, who is not subscribed to the user.
C29_Witness ==
  /\ req.op = "subscriptions" /\ resp.status = HTTP_200_OK
  /\ \E author \in Users \ {req.user} :
       /\ DOMAIN resp.body.results = {author}
       /\ subscriptions[<<author, req.user>>] = 0

\* C30: the exporter does not paginate: for a consolidated list of n lines
\* it emits exactly one page, with line i (counted from 0) drawn at the
\* vertical position 480 - 20 * i below the header rows at 550, 530 and 500,
\* so that the position is not positive for every line with i >= 24.
C30_OnePage ==
  req.op = "draw_shopping_cart" =>
    LET pages == resp.body.pages
        page == pages[1]
        lines == req.payload
    IN /\ Len(pages) = 1
       /\ Len(page) = 5 + 3 * Len(lines)
       /\ <<page[1].y, page[2].y, page[3].y, page[4].y, page[5].y>> =
            <<550, 530, 500, 500, 500>>
       /\ \A i \in 0..(Len(lines) - 1) :
            LET drawn == {page[5 + 3 * i + k] : k \in 1..3} IN
            /\ \A string \in drawn : string.y = 480 - 20 * i
            /\ {string.x : string \in drawn} = {50, 250, 450}
            /\ \E string \in drawn :
                 string.x = 50 /\ string.text = lines[i + 1].ingredient__name
            /\ \E string \in drawn :
                 /\ string.x = 250
                 /\ string.text = lines[i + 1].ingredient__measurement_unit
            /\ \E string \in drawn :
                 /\ string.x = 450
                 /\ DigitsValue(string.text) = lines[i + 1].amount
            /\ (\A string \in drawn : string.y <= 0) <=> i >= 24

\* C30 witness: a list of 25 lines drawn on one page, its last line at the
\* vertical position 0.
C30_Witness ==
  /\ req.op = "draw_shopping_cart"
  /\ Len(req.payload) = 25
  /\ Len(resp.body.pages) = 1
  /\ resp.body.pages[1][5 + 3 * 24 + 1].y = 0

====
